---- MODULE Spec2Model ----
(***************************************************************************)
(* Row partitioning (src/tree/common_row_partitioner.h) and the device     *)
(* histogram build (plugin/sycl/common/hist_util.cc) of the tree learner.  *)
(*                                                                         *)
(* Spec          the row partitioner: CommonRowPartitioner on one worker,  *)
(*               or ColumnSplitHelper on NumWorkers workers.               *)
(* SpecBuild     the device histogram build: a caller building the         *)
(*               histograms of a child and of its parent, one after the    *)
(*               other.                                                    *)
(* SpecSubtract  the subtraction trick: a caller building the histograms   *)
(*               of a parent and its children, then subtracting.           *)
(*                                                                         *)
(* Row ids, bins and cut values are small integers.  Cut values are only   *)
(* compared for equality by the code, so integers stand for the floats.    *)
(* Buffer positions are 0-based offsets as in the source; TLA+ sequences   *)
(* are 1-based, so position p of a buffer is element p + 1.                *)
(***************************************************************************)
EXTENDS Integers, Sequences, FiniteSets, TLC

(***************************************************************************)
(* Bounds of the model.                                                    *)
(***************************************************************************)
\* rows of the binned matrix (num_row of Reset)
NumRow == 4
\* rows per partition block: kPartitionBlockSize (2048 in the source), scaled
kPartitionBlockSize == 2
\* workers of a column-split run
NumWorkers == 2
\* ctx->Threads()
NumThreads == 2
\* node ids a tree may allocate in a single-worker run / a column-split run
MaxNodes == 7
MaxNodesCol == 5
\* bits per word of a bit vector: RBitField8 has 8, scaled
kValueSize == 3
\* binned matrices tried
NumSeeds == 1
\* the base_rowid values tried
Bases == {0, 1}
\* dispatcher.work_group_size ranges over 1 .. MaxWorkGroupSize
MaxWorkGroupSize == 2
\* dispatcher.block.size ranges over 2 .. MaxBlockSize
MaxBlockSize == 3

Min(a, b) == IF a < b THEN a ELSE b

Workers == 0 .. (NumWorkers - 1)
Threads == 0 .. (NumThreads - 1)
NodeIds == 0 .. (MaxNodes - 1)

(***************************************************************************)
(* The binned matrix and its cuts (input, read-only).                      *)
(***************************************************************************)
\* gmat.cut.Ptrs(): feature f owns the global bins [Ptrs[f+1], Ptrs[f+2])
Ptrs == <<0, 2, 4>>
\* gmat.cut.Values(): the cut value of every global bin
Values == <<1, 2, 1, 2>>
NumFeatures == Len(Ptrs) - 1
Features == 0 .. (NumFeatures - 1)
\* total number of bins B
NBins == Ptrs[Len(Ptrs)]
\* the sentinel bin of a missing cell
Missing == NBins
\* split values a tree node may carry (0 lies below every cut)
SplitPts == 0 .. 1

\* rows the matrices are made of: the global bin of feature 0 and of feature 1
RowKinds == << <<0, 2>>, <<1, Missing>>, <<Missing, 3>>, <<1, 2>>,
               <<0, Missing>>, <<Missing, Missing>>, <<1, 3>> >>

\* the matrix of a seed: row r (0-based) has the kind r + 3 * seed, cyclically
MatrixOf(seed) ==
  [r \in 1 .. NumRow |-> RowKinds[((r - 1 + 3 * seed) % Len(RowKinds)) + 1]]

Matrices == {MatrixOf(seed) : seed \in 0 .. (NumSeeds - 1)}

\* rows without an empty cell, and the dense matrix of a seed
DenseRowKinds == << <<0, 2>>, <<1, 3>>, <<1, 2>>, <<0, 3>> >>

DenseMatrixOf(seed) ==
  [r \in 1 .. NumRow |-> DenseRowKinds[((r - 1 + seed) % Len(DenseRowKinds)) + 1]]

DenseMatrices == {DenseMatrixOf(seed) : seed \in 0 .. (NumSeeds - 1)}

VARIABLES
  \* CommonRowPartitioner, one per worker
  is_col_split,       \* is_col_split_
  base_rowid,         \* base_rowid
  row_indices,        \* *row_set_collection_.Data(), per worker
  elems,              \* row_set_collection_: node id -> Elem, per worker
  \* arguments of the calls
  gmat,               \* the binned matrix (all features)
  gmat_base_rowid,    \* gmat.base_rowid of the running call
  tree,               \* *p_tree: node id -> node
  nodes,              \* the nodes of the running UpdatePosition call
  \* locals of the running UpdatePosition call
  pc,                 \* per worker: the phase it is in
  split_conditions,   \* result of FindSplitConditions
  space,              \* the BlockedSpace2d: sequence of (node_in_set, range)
  nodes_offsets,      \* partition_builder_: first task id of every node
  mem_blocks,         \* partition_builder_: per worker, per task id
  left_right_nodes_sizes,  \* partition_builder_: per worker, per node in set
  next_task,          \* per worker, per thread: next index of space to run
  \* ColumnSplitHelper, per worker
  decision_storage, missing_storage, tloc_decision, tloc_missing,
  local_decision, local_missing,   \* history: the vectors handed to all-reduce
  allreduce_log,      \* history: the all-reduces the running call invoked
  \* history: the buffer and ranges when the running call began
  pre_row_indices, pre_elems,
  \* the device histogram build (SpecSubtract)
  h_dense,            \* isDense
  h_rid,              \* the row-index buffer the node ranges point into
  h_split,            \* rows [0, h_split) are the left child's
  h_cfg,              \* device properties and test hook: what the dispatcher
                      \* and the kernel selection read
  h_prog,             \* the caller: the histograms it asks for, in order
  hist,               \* the histogram of every slot, on the device
  hist_buffer,        \* the nblocks x B scratch
  cmds,               \* the command groups submitted to the queue
  lanes,              \* the work-items of the running build kernel
  host_pc,            \* the caller's position
  last_token,         \* the event the caller got from its last BuildHist
  sub_after_builds    \* history: the subtraction ran after both builds

partVars == <<is_col_split, base_rowid, row_indices, elems, gmat,
              gmat_base_rowid, allreduce_log, tree, nodes,
              pc, split_conditions, space, nodes_offsets, mem_blocks,
              left_right_nodes_sizes, next_task, decision_storage, missing_storage, tloc_decision,
              tloc_missing, local_decision, local_missing,
              pre_row_indices, pre_elems>>

histInputs == <<h_dense, h_rid, h_split, h_cfg, h_prog>>

histVars == <<histInputs, hist, hist_buffer, cmds, lanes, host_pc, last_token,
              sub_after_builds>>

vars == <<partVars, histVars>>

(***************************************************************************)
(* Small helpers.                                                          *)
(***************************************************************************)
\* the elements of buf at the 0-based positions [from, to)
Slice(buf, from, to) == [i \in 1 .. (to - from) |-> buf[from + i]]

\* buf with seq copied to the 0-based position pos (std::copy into a buffer)
WriteAt(buf, pos, seq) ==
  [i \in 1 .. Len(buf) |->
     IF i - 1 >= pos /\ i - 1 < pos + Len(seq) THEN seq[i - pos] ELSE buf[i]]

\* a set of integers as the increasing sequence of its elements
RECURSIVE SortedSeq(_)
SortedSeq(S) ==
  IF S = {} THEN <<>>
  ELSE LET m == CHOOSE x \in S : \A y \in S : x <= y
       IN <<m>> \o SortedSeq(S \ {m})

\* the workers that run: all of them in a column-split run, else worker 0
ActiveWorkers == IF is_col_split THEN Workers ELSE {0}

(***************************************************************************)
(* RowSetCollection (common/row_set.h): node id -> range of the buffer.    *)
(***************************************************************************)
NoElem == [begin |-> 0, end |-> 0, node_id |-> -1]

ElemSize(e) == e.end - e.begin

\* Init(): the root owns the whole buffer
RowSetInit(num_row) ==
  [n \in NodeIds |->
     IF n = 0 THEN [begin |-> 0, end |-> num_row, node_id |-> 0] ELSE NoElem]

\* AddSplit(node_id, left, right, n_left, n_right)
AddSplit(el, node_id, left_node_id, right_node_id, n_left, n_right) ==
  LET begin == el[node_id].begin
  IN [el EXCEPT
        ![left_node_id] = [begin |-> begin, end |-> begin + n_left,
                           node_id |-> left_node_id],
        ![right_node_id] = [begin |-> begin + n_left,
                            end |-> begin + n_left + n_right,
                            node_id |-> right_node_id]]

(***************************************************************************)
(* RegTree, as far as the partitioner reads it.  Node n is tree[n + 1].    *)
(***************************************************************************)
LeafNode == [leaf |-> TRUE, fidx |-> 0, split_pt |-> 0, default_left |-> FALSE,
             cleft |-> -1, cright |-> -1]

SplitIndex(t, nidx) == t[nidx + 1].fidx
SplitCond(t, nidx) == t[nidx + 1].split_pt
DefaultLeft(t, nidx) == t[nidx + 1].default_left
LeftChild(t, nidx) == t[nidx + 1].cleft
RightChild(t, nidx) == t[nidx + 1].cright
IsLeaf(t, nidx) == t[nidx + 1].leaf

\* the split descriptors a caller may put on a node
SplitChoices ==
  [fidx : Features, split_pt : SplitPts, default_left : BOOLEAN]

\* RegTree::ExpandNode: the split is recorded, two fresh leaves are appended
ExpandNode(t, nidx, sp) ==
  [t EXCEPT ![nidx + 1] =
     [leaf |-> FALSE, fidx |-> sp.fidx, split_pt |-> sp.split_pt,
      default_left |-> sp.default_left,
      cleft |-> Len(t), cright |-> Len(t) + 1]]
  \o <<LeafNode, LeafNode>>

\* the caller expands every node of ns (a sequence) before UpdatePosition
RECURSIVE ExpandAll(_, _, _)
ExpandAll(t, ns, sp) ==
  IF ns = <<>> THEN t
  ELSE ExpandAll(ExpandNode(t, Head(ns), sp[Head(ns)]), Tail(ns), sp)

\* the descriptors of split nodes are dropped once the call that read them
\* has returned: no later call reads them
ForgetSplits(t) ==
  [i \in 1 .. Len(t) |->
     IF t[i].leaf THEN t[i]
     ELSE [t[i] EXCEPT !.fidx = 0, !.split_pt = 0, !.default_left = FALSE]]

(***************************************************************************)
(* The binned matrix as worker w sees it.                                  *)
(***************************************************************************)
\* the worker that holds feature f in a column-split run
OwnerOf(f) == f % NumWorkers

\* the global bin of (row id, feature) on worker w, Missing when the cell is
\* empty or, in a column-split run, when w does not hold the feature
LocalBin(w, row_id, fidx) ==
  IF is_col_split /\ OwnerOf(fidx) # w THEN Missing
  ELSE gmat[row_id - base_rowid[w] + 1][fidx + 1]

\* the global bin of (row id, feature) in the whole matrix
GlobalBin(w, row_id, fidx) == gmat[row_id - base_rowid[w] + 1][fidx + 1]

\* the column of the split feature of node nid, by row id: as worker w holds
\* it, and in the whole matrix
LocalBinsOfNode(w, nid) ==
  [r \in base_rowid[w] .. (base_rowid[w] + NumRow - 1) |->
     LocalBin(w, r, SplitIndex(tree, nid))]

GlobalBinsOfNode(w, nid) ==
  [r \in base_rowid[w] .. (base_rowid[w] + NumRow - 1) |->
     GlobalBin(w, r, SplitIndex(tree, nid))]

(***************************************************************************)
(* BlockedSpace2d and ParallelFor2d (common/threading_utils.h).            *)
(***************************************************************************)
\* a count that gives every node a last block, rows or not
NTasks_OneMore(size) == (size \div kPartitionBlockSize) + 1

\* the number of blocks of a node of `size` rows (UpdatePosition, 2.2)
NTasks(size) ==
  (size \div kPartitionBlockSize)
  + (IF size % kPartitionBlockSize # 0 THEN 1 ELSE 0)

\* the blocks of one node: [begin, end) in rows of the node's range
BlocksOf(node_in_set, size) ==
  [i \in 1 .. NTasks(size) |->
     [node_in_set |-> node_in_set,
      begin |-> (i - 1) * kPartitionBlockSize,
      end |-> Min(i * kPartitionBlockSize, size)]]

\* BlockedSpace2d(n_nodes, size of node, kPartitionBlockSize); sizes[i] is
\* the size of node i - 1 of the set
RECURSIVE BlockedSpace2dFrom(_, _)
BlockedSpace2dFrom(i, sizes) ==
  IF i > Len(sizes) THEN <<>>
  ELSE BlocksOf(i - 1, sizes[i]) \o BlockedSpace2dFrom(i + 1, sizes)

BlockedSpace2d(sizes) == BlockedSpace2dFrom(1, sizes)

\* ParallelFor2d: static assignment, thread tid runs the indices
\* [ThreadBegin, ThreadEnd) of the space in increasing order
ChunkSize(total) ==
  (total \div NumThreads) + (IF total % NumThreads # 0 THEN 1 ELSE 0)
ThreadBegin(tid, total) == Min(ChunkSize(total) * tid, total)
ThreadEnd(tid, total) == Min(ChunkSize(total) * (tid + 1), total)

\* every thread at the start of its chunk / all threads through their chunks
StartOfRegion(total) == [tid \in Threads |-> ThreadBegin(tid, total)]
RegionDone(nt, total) == \A tid \in Threads : nt[tid] >= ThreadEnd(tid, total)

(***************************************************************************)
(* PartitionBuilder (common/partition_builder.h).                          *)
(***************************************************************************)
EmptyBlock == [n_left |-> 0, n_right |-> 0, left |-> <<>>, right |-> <<>>,
               n_offset_left |-> 0, n_offset_right |-> 0]

\* Init(n_tasks, n_nodes, tasks per node): nodes_offsets_[i] is the first
\* task id of node i of the set; one more entry closes the last node
RECURSIVE NodesOffsetsFrom(_, _, _)
NodesOffsetsFrom(i, n_tasks, acc) ==
  IF i > Len(n_tasks) THEN <<acc>>
  ELSE <<acc>> \o NodesOffsetsFrom(i + 1, n_tasks, acc + n_tasks[i])

NodesOffsets(n_tasks) == NodesOffsetsFrom(1, n_tasks, 0)

\* GetTaskIdx(nid, begin)
GetTaskIdx(offs, node_in_set, begin) ==
  offs[node_in_set + 1] + (begin \div kPartitionBlockSize)

\* a row goes left: bin <= split_cond, a missing cell follows the default
GoesLeft(bin, split_cond, default_left) ==
  IF bin = Missing THEN default_left ELSE bin <= split_cond

\* Partition(node_in_set, nodes, range, split_cond, ..., rid): the rows
\* rid[begin .. end) in their order, left-destined and right-destined;
\* bins[r] is the bin of row id r for the split feature
Partition(bins, buf, begin, end, split_cond, default_left, rid) ==
  LET rows == Slice(buf, rid + begin, rid + end)
      left == SelectSeq(rows, LAMBDA r :
                GoesLeft(bins[r], split_cond, default_left))
      right == SelectSeq(rows, LAMBDA r :
                 ~GoesLeft(bins[r], split_cond, default_left))
  IN [EmptyBlock EXCEPT !.n_left = Len(left), !.n_right = Len(right),
                        !.left = left, !.right = right]

\* the left and the right counts summed over the tasks [from, to)
RECURSIVE SumLeft(_, _, _)
SumLeft(blocks, from, to) ==
  IF from >= to THEN 0
  ELSE blocks[from + 1].n_left + SumLeft(blocks, from + 1, to)
RECURSIVE SumRight(_, _, _)
SumRight(blocks, from, to) ==
  IF from >= to THEN 0
  ELSE blocks[from + 1].n_right + SumRight(blocks, from + 1, to)

\* the node of the set that owns task id t
NodeOfTask(offs, t) ==
  CHOOSE i \in 0 .. (Len(offs) - 2) : offs[i + 1] <= t /\ t < offs[i + 2]

\* CalculateRowOffsets(): exclusive prefix sums per node; the right blocks
\* follow all the left blocks of their node
CalculateRowOffsets(blocks, offs) ==
  [t \in 1 .. Len(blocks) |->
     LET i == NodeOfTask(offs, t - 1)
         first == offs[i + 1]
         last == offs[i + 2]
     IN [blocks[t] EXCEPT
           !.n_offset_left = SumLeft(blocks, first, t - 1),
           !.n_offset_right = SumLeft(blocks, first, last)
                              + SumRight(blocks, first, t - 1)]]

\* left_right_nodes_sizes_ after CalculateRowOffsets()
NodesSizes(blocks, offs) ==
  [i \in 1 .. (Len(offs) - 1) |->
     [n_left |-> SumLeft(blocks, offs[i], offs[i + 1]),
      n_right |-> SumRight(blocks, offs[i], offs[i + 1])]]

\* MergeToArray(nid, begin, rows_indexes): the task's two sub-blocks are
\* copied to their offsets from rows_indexes
MergeToArray(buf, blocks, offs, node_in_set, begin, rows_indexes) ==
  LET b == blocks[GetTaskIdx(offs, node_in_set, begin) + 1]
  IN WriteAt(WriteAt(buf, rows_indexes + b.n_offset_left, b.left),
             rows_indexes + b.n_offset_right, b.right)

(***************************************************************************)
(* RBitField8 (common/bitfield.h): a bit vector over a span of words.  A   *)
(* word is the set of its bit positions that are 1.                        *)
(***************************************************************************)
\* BitVector::ComputeStorageSize(size)
ComputeStorageSize(size) ==
  (size \div kValueSize) + (IF size % kValueSize # 0 THEN 1 ELSE 0)

ZeroWords(n) == [k \in 1 .. n |-> {}]

\* Set(i) for every i of S on the vector over the words [off, off + n)
SetBits(storage, off, S) ==
  [k \in 1 .. Len(storage) |->
     storage[k] \cup {i % kValueSize :
                        i \in {j \in S : off + (j \div kValueSize) + 1 = k}}]

\* Check(i) on a vector over a whole storage
CheckBit(storage, i) == (i % kValueSize) \in storage[(i \div kValueSize) + 1]

(***************************************************************************)
(* CommonRowPartitioner::Reset and FindSplitConditions.                    *)
(***************************************************************************)
\* common::Iota(ctx, first, last, value)
Iota(num_row, value) == [i \in 1 .. num_row |-> value + i - 1]

\* std::numeric_limits<int32_t>::max()
Int32Max == 2147483647

\* the column matrix of the hist updater is initialized; the approx updater
\* (no column matrix, split_cond = 0, compared on feature values inside
\* PartitionBuilder) is outside the model
ColumnMatrixInitialized == TRUE

\* the loop over [lower_bound, upper_bound): the last equal cut wins
RECURSIVE ScanCuts(_, _, _, _)
ScanCuts(bound, upper_bound, split_pt, split_cond) ==
  IF bound >= upper_bound THEN split_cond
  ELSE ScanCuts(bound + 1, upper_bound, split_pt,
                IF split_pt = Values[bound + 1] THEN bound ELSE split_cond)

\* a scan over the cuts of every feature instead of the split feature's
FindSplitCondition_WholeTable(t, nidx) ==
  ScanCuts(0, Len(Values), SplitCond(t, nidx), -1)

\* the split condition of one node
FindSplitCondition(t, nidx) ==
  LET fidx == SplitIndex(t, nidx)
  IN ScanCuts(Ptrs[fidx + 1], Ptrs[fidx + 2], SplitCond(t, nidx), -1)

\* CHECK_LT(upper_bound, int32 max) of every node
FindSplitConditionsOk(ns, t) ==
  \A i \in 1 .. Len(ns) : Ptrs[SplitIndex(t, ns[i]) + 2] < Int32Max

FindSplitConditions(ns, t) ==
  [i \in 1 .. Len(ns) |-> FindSplitCondition(t, ns[i])]

\* the split condition of a partitioner without a column matrix
SplitCondOf_Zero(conds, node_in_set) == 0

\* the split condition a task of node_in_set works with
SplitCondOf(conds, node_in_set) ==
  IF ColumnMatrixInitialized THEN conds[node_in_set + 1] ELSE 0

(***************************************************************************)
(* The state after CommonRowPartitioner(ctx, num_row, base, is_col_split). *)
(***************************************************************************)
\* a Reset that numbers the rows from 0 whatever the base_rowid
ResetRowIndices_FromZero(num_row, base) == Iota(num_row, 0)

\* Reset: the buffer is resized to num_row and filled with base_rowid ...
ResetRowIndices(num_row, base) == Iota(num_row, base)

\* Reset: a column-split partitioner gets a fresh ColumnSplitHelper
ResetStorage(col, old) ==
  IF col THEN ZeroWords(ComputeStorageSize(NumRow)) ELSE old

ResetTo(col, base) ==
  /\ is_col_split' = col
  /\ base_rowid' = [w \in Workers |-> base]
  /\ row_indices' = [w \in Workers |-> ResetRowIndices(NumRow, base)]
  /\ elems' = [w \in Workers |-> RowSetInit(NumRow)]
  /\ tree' = <<LeafNode>>
  /\ nodes' = <<>>
  /\ pc' = [w \in Workers |-> "idle"]
  /\ split_conditions' = <<>>
  /\ space' = <<>>
  /\ nodes_offsets' = <<0>>
  /\ mem_blocks' = [w \in Workers |-> <<>>]
  /\ left_right_nodes_sizes' = [w \in Workers |-> <<>>]
  /\ next_task' = [w \in Workers |-> [tid \in Threads |-> 0]]
  /\ decision_storage' =
       [w \in Workers |-> ResetStorage(col, decision_storage[w])]
  /\ missing_storage' =
       [w \in Workers |-> ResetStorage(col, missing_storage[w])]
  /\ tloc_decision' = [w \in Workers |-> IF col THEN <<>> ELSE tloc_decision[w]]
  /\ tloc_missing' = [w \in Workers |-> IF col THEN <<>> ELSE tloc_missing[w]]
  /\ local_decision' = [w \in Workers |-> <<>>]
  /\ local_missing' = [w \in Workers |-> <<>>]
  /\ pre_row_indices' = [w \in Workers |-> <<>>]
  /\ pre_elems' = [w \in Workers |-> <<>>]
  /\ gmat_base_rowid' = 0
  /\ allreduce_log' = <<>>

\* no histogram is built while the partitioner is studied
HistIdle ==
  /\ h_dense = FALSE
  /\ h_rid = <<>>
  /\ h_split = 0
  /\ h_cfg = <<>>
  /\ h_prog = <<>>
  /\ hist = <<>>
  /\ hist_buffer = <<>>
  /\ cmds = <<>>
  /\ lanes = <<>>
  /\ host_pc = 0
  /\ last_token = 0
  /\ sub_after_builds = FALSE

Init ==
  \E col \in BOOLEAN, base \in Bases, m \in Matrices :
    /\ HistIdle
    /\ is_col_split = col
    /\ base_rowid = [w \in Workers |-> base]
    /\ row_indices = [w \in Workers |-> ResetRowIndices(NumRow, base)]
    /\ elems = [w \in Workers |-> RowSetInit(NumRow)]
    /\ gmat = m
    /\ gmat_base_rowid = 0
    /\ allreduce_log = <<>>
    /\ tree = <<LeafNode>>
    /\ nodes = <<>>
    /\ pc = [w \in Workers |-> "idle"]
    /\ split_conditions = <<>>
    /\ space = <<>>
    /\ nodes_offsets = <<0>>
    /\ mem_blocks = [w \in Workers |-> <<>>]
    /\ left_right_nodes_sizes = [w \in Workers |-> <<>>]
    /\ next_task = [w \in Workers |-> [tid \in Threads |-> 0]]
    /\ decision_storage = [w \in Workers |-> ResetStorage(col, <<>>)]
    /\ missing_storage = [w \in Workers |-> ResetStorage(col, <<>>)]
    /\ tloc_decision = [w \in Workers |-> <<>>]
    /\ tloc_missing = [w \in Workers |-> <<>>]
    /\ local_decision = [w \in Workers |-> <<>>]
    /\ local_missing = [w \in Workers |-> <<>>]
    /\ pre_row_indices = [w \in Workers |-> <<>>]
    /\ pre_elems = [w \in Workers |-> <<>>]

\* Reset(ctx, num_row, base_rowid, is_col_split) between two trees; the
\* caller passes the is_col_split of the data, the same for every tree
Reset ==
  /\ \A w \in ActiveWorkers : pc[w] = "idle"
  /\ \E base \in Bases : ResetTo(is_col_split, base)
  /\ UNCHANGED <<histVars, gmat>>

(***************************************************************************)
(* CommonRowPartitioner::UpdatePosition.                                   *)
(***************************************************************************)
\* the leaves that own a range: the nodes a caller may split
SplittableLeaves ==
  {n \in 0 .. (Len(tree) - 1) : IsLeaf(tree, n) /\ elems[0][n].node_id = n}

\* node ids the tree of this run may allocate
NodeCapacity == IF is_col_split THEN MaxNodesCol ELSE MaxNodes

\* the sizes of the nodes of the set, as the blocked space reads them
NodeSizes(w, ns) == [i \in 1 .. Len(ns) |-> ElemSize(elems[w][ns[i]])]

\* a task count that forgets the last, shorter block of a node
TasksPerNode_Floor(w, ns) ==
  [i \in 1 .. Len(ns) |-> NodeSizes(w, ns)[i] \div kPartitionBlockSize]

\* the tasks of every node: size / block + !!(size % block)
TasksPerNode(w, ns) == [i \in 1 .. Len(ns) |-> NTasks(NodeSizes(w, ns)[i])]

\* a call that does not compare the two base_rowid
CheckBaseRowid_Skipped(w, gmat_base) == TRUE

\* CHECK_EQ(base_rowid, gmat.base_rowid)
CheckBaseRowid(w, gmat_base) == base_rowid[w] = gmat_base

\* a resize without the fill
ClearStorage_ResizeOnly(storage, n) ==
  IF Len(storage) = n THEN storage ELSE ZeroWords(n)

\* resize(n) followed by std::fill / std::fill_n with 0
ClearStorage(storage, n) == ZeroWords(n)

\* UpdatePosition(ctx, gmat, nodes, p_tree) of the nodes nseq of the tree t2:
\* steps 1 to 2.2 and CHECK_EQ(base_rowid, gmat.base_rowid); a column-split
\* worker then enters ColumnSplitHelper::Partition, which clears its vectors
\* and sizes the thread-local replicas
UpdatePositionCall(t2, nseq, gmat_base_rowid_arg) ==
  /\ LET checks == /\ FindSplitConditionsOk(nseq, t2)
                    /\ \A w \in ActiveWorkers :
                         CheckBaseRowid(w, gmat_base_rowid_arg)
          sp2 == BlockedSpace2d(NodeSizes(0, nseq))
          n_bytes == ComputeStorageSize(NumRow)
      IN /\ tree' = t2
         /\ nodes' = nseq
         /\ split_conditions' =
              IF ColumnMatrixInitialized
              THEN FindSplitConditions(nseq, t2) ELSE <<>>
         /\ space' = sp2
         /\ nodes_offsets' = NodesOffsets(TasksPerNode(0, nseq))
         /\ mem_blocks' =
              [w \in Workers |->
                 IF w \in ActiveWorkers
                 THEN [k \in 1 .. Len(sp2) |-> EmptyBlock]
                 ELSE mem_blocks[w]]
         /\ next_task' =
              [w \in Workers |->
                 IF w \in ActiveWorkers
                 THEN StartOfRegion(Len(sp2)) ELSE next_task[w]]
         /\ pc' =
              [w \in Workers |->
                 IF w \notin ActiveWorkers THEN pc[w]
                 ELSE IF ~checks THEN "abort"
                 ELSE IF is_col_split THEN "mask" ELSE "partition"]
         /\ IF is_col_split /\ checks
            THEN /\ decision_storage' =
                      [w \in Workers |->
                         ClearStorage(decision_storage[w], n_bytes)]
                 /\ missing_storage' =
                      [w \in Workers |->
                         ClearStorage(missing_storage[w], n_bytes)]
                 /\ tloc_decision' =
                      [w \in Workers |->
                         ClearStorage(tloc_decision[w], n_bytes * NumThreads)]
                 /\ tloc_missing' =
                      [w \in Workers |->
                         ClearStorage(tloc_missing[w], n_bytes * NumThreads)]
            ELSE UNCHANGED <<decision_storage, missing_storage,
                             tloc_decision, tloc_missing>>
         /\ pre_row_indices' = row_indices
         /\ pre_elems' = elems
         /\ gmat_base_rowid' = gmat_base_rowid_arg
         /\ allreduce_log' = <<>>
  /\ UNCHANGED <<histVars, is_col_split, base_rowid, row_indices, elems, gmat,
                 left_right_nodes_sizes, local_decision, local_missing>>

\* UpdatePosition of the nodes ns of a tree the caller has just expanded
UpdatePositionBegin ==
  /\ \A w \in ActiveWorkers : pc[w] = "idle"
  /\ \E ns \in (SUBSET SplittableLeaves) \ {{}} :
       /\ Len(tree) + 2 * Cardinality(ns) <= NodeCapacity
       /\ \E sp \in [ns -> SplitChoices], gmat_base_rowid_arg \in Bases :
            UpdatePositionCall(ExpandAll(tree, SortedSeq(ns), sp),
                               SortedSeq(ns), gmat_base_rowid_arg)

\* a partition task that reads its rows from the start of the buffer, not
\* from the begin of its node's range
PartitionTaskResult_BufferStart(w, k) ==
  LET task == space[k + 1]
      node_in_set == task.node_in_set
      nid == nodes[node_in_set + 1]
      task_id == GetTaskIdx(nodes_offsets, node_in_set, task.begin)
      split_cond == SplitCondOf(split_conditions, node_in_set)
  IN [mem_blocks[w] EXCEPT ![task_id + 1] =
        Partition(LocalBinsOfNode(w, nid),
                  row_indices[w], task.begin, task.end, split_cond,
                  DefaultLeft(tree, nid), 0)]

\* the task at index k of the blocked space, run by worker w: step 2.3
PartitionTaskResult(w, k) ==
  LET task == space[k + 1]
      node_in_set == task.node_in_set
      nid == nodes[node_in_set + 1]
      task_id == GetTaskIdx(nodes_offsets, node_in_set, task.begin)
      split_cond == SplitCondOf(split_conditions, node_in_set)
  IN [mem_blocks[w] EXCEPT ![task_id + 1] =
        Partition(LocalBinsOfNode(w, nid),
                  row_indices[w], task.begin, task.end, split_cond,
                  DefaultLeft(tree, nid), elems[w][nid].begin)]

\* a partition task that also stores its rows, left ones first, over its
\* block of the row buffer
PartitionTask_InPlace(w, tid) ==
  /\ pc[w] = "partition"
  /\ next_task[w][tid] < ThreadEnd(tid, Len(space))
  /\ LET k == next_task[w][tid]
         task == space[k + 1]
         res == PartitionTaskResult(w, k)
         b == res[GetTaskIdx(nodes_offsets, task.node_in_set, task.begin) + 1]
     IN /\ mem_blocks' = [mem_blocks EXCEPT ![w] = res]
        /\ row_indices' =
             [row_indices EXCEPT
                ![w] = WriteAt(@, elems[w][nodes[task.node_in_set + 1]].begin
                                  + task.begin, b.left \o b.right)]
  /\ next_task' = [next_task EXCEPT ![w][tid] = @ + 1]
  /\ UNCHANGED <<histVars, is_col_split, base_rowid, elems, gmat, gmat_base_rowid, allreduce_log, tree,
                 nodes, pc, split_conditions, space, nodes_offsets,
                 left_right_nodes_sizes, decision_storage, missing_storage,
                 tloc_decision, tloc_missing, local_decision, local_missing,
                 pre_row_indices, pre_elems>>

PartitionTask(w, tid) ==
  /\ pc[w] = "partition"
  /\ next_task[w][tid] < ThreadEnd(tid, Len(space))
  /\ mem_blocks' =
       [mem_blocks EXCEPT ![w] = PartitionTaskResult(w, next_task[w][tid])]
  /\ next_task' = [next_task EXCEPT ![w][tid] = @ + 1]
  /\ UNCHANGED <<histVars, is_col_split, base_rowid, row_indices, elems, gmat, gmat_base_rowid, allreduce_log, tree,
                 nodes, pc, split_conditions, space, nodes_offsets,
                 left_right_nodes_sizes, decision_storage, missing_storage,
                 tloc_decision, tloc_missing, local_decision, local_missing,
                 pre_row_indices, pre_elems>>

\* AllocateForTask of the next task of thread tid cannot get its scratch
\* (single-worker path): the exception ends the call
AllocateForTaskFails(w, tid) ==
  /\ pc[w] = "partition"
  /\ next_task[w][tid] < ThreadEnd(tid, Len(space))
  /\ pc' = [pc EXCEPT ![w] = "abort"]
  /\ UNCHANGED <<histVars, is_col_split, base_rowid, row_indices, elems, gmat, gmat_base_rowid, allreduce_log,
                 tree, nodes, split_conditions, space, nodes_offsets,
                 mem_blocks, left_right_nodes_sizes, next_task,
                 decision_storage, missing_storage, tloc_decision,
                 tloc_missing, local_decision, local_missing,
                 pre_row_indices, pre_elems>>

\* offsets computed without waiting for the tasks of the partition region
CalculateRowOffsetsStep_NoJoin(w) ==
  /\ pc[w] \in {"partition", "partition_by_mask"}
  /\ mem_blocks' =
       [mem_blocks EXCEPT ![w] = CalculateRowOffsets(@, nodes_offsets)]
  /\ left_right_nodes_sizes' =
       [left_right_nodes_sizes EXCEPT
          ![w] = NodesSizes(mem_blocks[w], nodes_offsets)]
  /\ pc' = [pc EXCEPT ![w] = "merge"]
  /\ next_task' = [next_task EXCEPT ![w] = StartOfRegion(Len(space))]
  /\ UNCHANGED <<histVars, is_col_split, base_rowid, row_indices, elems, gmat, gmat_base_rowid, allreduce_log,
                 tree, nodes, split_conditions, space, nodes_offsets,
                 decision_storage, missing_storage, tloc_decision,
                 tloc_missing, local_decision, local_missing,
                 pre_row_indices, pre_elems>>

\* step 3, after the join of the partition region
CalculateRowOffsetsStep(w) ==
  /\ pc[w] \in {"partition", "partition_by_mask"}
  /\ RegionDone(next_task[w], Len(space))
  /\ mem_blocks' =
       [mem_blocks EXCEPT ![w] = CalculateRowOffsets(@, nodes_offsets)]
  /\ left_right_nodes_sizes' =
       [left_right_nodes_sizes EXCEPT
          ![w] = NodesSizes(mem_blocks[w], nodes_offsets)]
  /\ pc' = [pc EXCEPT ![w] = "merge"]
  /\ next_task' = [next_task EXCEPT ![w] = StartOfRegion(Len(space))]
  /\ UNCHANGED <<histVars, is_col_split, base_rowid, row_indices, elems, gmat, gmat_base_rowid, allreduce_log, tree,
                 nodes, split_conditions, space, nodes_offsets,
                 decision_storage, missing_storage, tloc_decision,
                 tloc_missing, local_decision, local_missing,
                 pre_row_indices, pre_elems>>

\* a merge that copies to the start of the buffer
MergeBase_BufferStart(w, nid) == 0

\* the pointer MergeToArray copies to: the begin of the node's range
MergeBase(w, nid) == elems[w][nid].begin

\* the merge task at index k of the blocked space: step 4
MergeTaskResult(w, k) ==
  LET task == space[k + 1]
      nid == nodes[task.node_in_set + 1]
  IN MergeToArray(row_indices[w], mem_blocks[w], nodes_offsets,
                  task.node_in_set, task.begin, MergeBase(w, nid))

MergeTask(w, tid) ==
  /\ pc[w] = "merge"
  /\ next_task[w][tid] < ThreadEnd(tid, Len(space))
  /\ row_indices' =
       [row_indices EXCEPT ![w] = MergeTaskResult(w, next_task[w][tid])]
  /\ next_task' = [next_task EXCEPT ![w][tid] = @ + 1]
  /\ UNCHANGED <<histVars, is_col_split, base_rowid, elems, gmat, gmat_base_rowid, allreduce_log, tree, nodes, pc,
                 split_conditions, space, nodes_offsets, mem_blocks,
                 left_right_nodes_sizes, decision_storage, missing_storage,
                 tloc_decision, tloc_missing, local_decision, local_missing,
                 pre_row_indices, pre_elems>>

\* an AddSplitsToRowSet that does not compare the ids of the two children
RECURSIVE AddSplitsFrom_AnyChildren(_, _, _)
AddSplitsFrom_AnyChildren(sizes, i, el) ==
  IF i > Len(nodes) THEN [ok |-> TRUE, elems |-> el]
  ELSE LET nidx == nodes[i]
           n_left == sizes[i].n_left
           n_right == sizes[i].n_right
       IN IF n_left + n_right # ElemSize(el[nidx])
          THEN [ok |-> FALSE, elems |-> el]
          ELSE AddSplitsFrom_AnyChildren(sizes, i + 1,
                 AddSplit(el, nidx, LeftChild(tree, nidx),
                          RightChild(tree, nidx), n_left, n_right))

\* an AddSplitsToRowSet that hands the two counts over in the wrong order
RECURSIVE AddSplitsFrom_Swapped(_, _, _)
AddSplitsFrom_Swapped(sizes, i, el) ==
  IF i > Len(nodes) THEN [ok |-> TRUE, elems |-> el]
  ELSE LET nidx == nodes[i]
           n_left == sizes[i].n_right
           n_right == sizes[i].n_left
       IN IF \/ LeftChild(tree, nidx) + 1 # RightChild(tree, nidx)
             \/ n_left + n_right # ElemSize(el[nidx])
          THEN [ok |-> FALSE, elems |-> el]
          ELSE AddSplitsFrom_Swapped(sizes, i + 1,
                 AddSplit(el, nidx, LeftChild(tree, nidx),
                          RightChild(tree, nidx), n_left, n_right))

\* AddSplitsToRowSet from node i of the set on, sizes being the counts
\* GetNLeftElems / GetNRightElems return: [ok, elems]; ok is FALSE
\* when a CHECK fails (the children are not adjacent ids, or AddSplit is
\* handed counts that do not add up to the parent's size)
RECURSIVE AddSplitsFrom(_, _, _)
AddSplitsFrom(sizes, i, el) ==
  IF i > Len(nodes) THEN [ok |-> TRUE, elems |-> el]
  ELSE LET nidx == nodes[i]
           n_left == sizes[i].n_left
           n_right == sizes[i].n_right
       IN IF \/ LeftChild(tree, nidx) + 1 # RightChild(tree, nidx)
             \/ n_left + n_right # ElemSize(el[nidx])
          THEN [ok |-> FALSE, elems |-> el]
          ELSE AddSplitsFrom(sizes, i + 1,
                 AddSplit(el, nidx, LeftChild(tree, nidx),
                          RightChild(tree, nidx), n_left, n_right))

\* step 5, after the join of the merge region
AddSplitsToRowSet(w) ==
  /\ pc[w] = "merge"
  /\ RegionDone(next_task[w], Len(space))
  /\ LET res == AddSplitsFrom(left_right_nodes_sizes[w], 1, elems[w])
     IN /\ elems' = [elems EXCEPT ![w] = res.elems]
        /\ pc' = [pc EXCEPT ![w] = IF res.ok THEN "done" ELSE "abort"]
  /\ UNCHANGED <<histVars, is_col_split, base_rowid, row_indices, gmat, gmat_base_rowid, allreduce_log, tree, nodes,
                 split_conditions, space, nodes_offsets, mem_blocks,
                 left_right_nodes_sizes, next_task, decision_storage,
                 missing_storage, tloc_decision, tloc_missing,
                 local_decision, local_missing, pre_row_indices, pre_elems>>

\* UpdatePosition returns on every worker: its locals and the scratch of
\* the partition builder are dead, the members of the helper stay
Return ==
  /\ \A w \in ActiveWorkers : pc[w] = "done"
  /\ pc' = [w \in Workers |-> "idle"]
  /\ tree' = ForgetSplits(tree)
  /\ nodes' = <<>>
  /\ split_conditions' = <<>>
  /\ space' = <<>>
  /\ nodes_offsets' = <<0>>
  /\ mem_blocks' = [w \in Workers |-> <<>>]
  /\ left_right_nodes_sizes' = [w \in Workers |-> <<>>]
  /\ next_task' = [w \in Workers |-> [tid \in Threads |-> 0]]
  /\ local_decision' = [w \in Workers |-> <<>>]
  /\ local_missing' = [w \in Workers |-> <<>>]
  /\ pre_row_indices' = [w \in Workers |-> <<>>]
  /\ pre_elems' = [w \in Workers |-> <<>>]
  /\ gmat_base_rowid' = 0
  /\ allreduce_log' = <<>>
  /\ UNCHANGED <<histVars, is_col_split, base_rowid, row_indices, elems, gmat,
                 decision_storage, missing_storage, tloc_decision,
                 tloc_missing>>

(***************************************************************************)
(* ColumnSplitHelper::Partition.                                           *)
(***************************************************************************)
\* every thread is given the first replica
MakeTloc_FirstReplica(w, tidx) == 0

\* make_tloc(storage, tidx): the replica of thread tidx starts at word
\* n * tidx, n = decision_storage_.size()
MakeTloc(w, tidx) == Len(decision_storage[w]) * tidx

\* PartitionBuilder::MaskRows on the rows rid[begin .. end): a row whose
\* split feature is not held gets its missing bit, a row placed right gets
\* its decision bit; bit index = row id - base_rowid
MaskRowsMissing(w, nid, begin, end, rid) ==
  LET rows == Slice(row_indices[w], rid + begin, rid + end)
  IN {rows[i] - base_rowid[w] : i \in
        {j \in 1 .. Len(rows) :
           LocalBin(w, rows[j], SplitIndex(tree, nid)) = Missing}}

MaskRowsDecision(w, nid, begin, end, split_cond, rid) ==
  LET rows == Slice(row_indices[w], rid + begin, rid + end)
  IN {rows[i] - base_rowid[w] : i \in
        {j \in 1 .. Len(rows) :
           /\ LocalBin(w, rows[j], SplitIndex(tree, nid)) # Missing
           /\ LocalBin(w, rows[j], SplitIndex(tree, nid)) > split_cond}}

\* the first parallel region: task k of the space, run by thread tidx
MaskTaskDecision(w, tidx, k) ==
  LET task == space[k + 1]
      nid == nodes[task.node_in_set + 1]
  IN SetBits(tloc_decision[w], MakeTloc(w, tidx),
             MaskRowsDecision(w, nid, task.begin, task.end,
                              SplitCondOf(split_conditions, task.node_in_set),
                              elems[w][nid].begin))

MaskTaskMissing(w, tidx, k) ==
  LET task == space[k + 1]
      nid == nodes[task.node_in_set + 1]
  IN SetBits(tloc_missing[w], MakeTloc(w, tidx),
             MaskRowsMissing(w, nid, task.begin, task.end,
                             elems[w][nid].begin))

MaskTask(w, tid) ==
  /\ pc[w] = "mask"
  /\ next_task[w][tid] < ThreadEnd(tid, Len(space))
  /\ tloc_decision' =
       [tloc_decision EXCEPT ![w] = MaskTaskDecision(w, tid, next_task[w][tid])]
  /\ tloc_missing' =
       [tloc_missing EXCEPT ![w] = MaskTaskMissing(w, tid, next_task[w][tid])]
  /\ next_task' = [next_task EXCEPT ![w][tid] = @ + 1]
  /\ UNCHANGED <<histVars, is_col_split, base_rowid, row_indices, elems, gmat, gmat_base_rowid, allreduce_log, tree,
                 nodes, pc, split_conditions, space, nodes_offsets,
                 mem_blocks, left_right_nodes_sizes, decision_storage,
                 missing_storage, local_decision, local_missing,
                 pre_row_indices, pre_elems>>

\* a reduction that leaves out the last replica
ReduceTloc_SkipsLast(tloc, n) ==
  [k \in 1 .. Len(tloc) |->
     IF k <= n THEN UNION {tloc[k + n * tidx] : tidx \in Threads \ {NumThreads - 1}}
     ELSE tloc[k]]

\* a reduction that keeps replica 0 as it is
ReduceTloc_FirstReplica(tloc, n) == tloc

\* "Reduce thread local": replica 0 |= replica tidx for tidx = 1 ..
\* n_threads - 1, in place
ReduceTloc(tloc, n) ==
  [k \in 1 .. Len(tloc) |->
     IF k <= n THEN UNION {tloc[k + n * tidx] : tidx \in Threads}
     ELSE tloc[k]]

\* after the join of the first region: reduce, then copy replica 0 into the
\* worker's vectors
ReduceThreadLocal(w) ==
  /\ pc[w] = "mask"
  /\ RegionDone(next_task[w], Len(space))
  /\ LET n == Len(decision_storage[w])
         dec == ReduceTloc(tloc_decision[w], n)
         mis == ReduceTloc(tloc_missing[w], n)
     IN /\ tloc_decision' = [tloc_decision EXCEPT ![w] = dec]
        /\ tloc_missing' = [tloc_missing EXCEPT ![w] = mis]
        /\ decision_storage' =
             [decision_storage EXCEPT ![w] = Slice(dec, 0, n)]
        /\ missing_storage' =
             [missing_storage EXCEPT ![w] = Slice(mis, 0, n)]
        /\ local_decision' = [local_decision EXCEPT ![w] = Slice(dec, 0, n)]
        /\ local_missing' = [local_missing EXCEPT ![w] = Slice(mis, 0, n)]
  /\ pc' = [pc EXCEPT ![w] = "allreduce_decision"]
  /\ UNCHANGED <<histVars, is_col_split, base_rowid, row_indices, elems, gmat, gmat_base_rowid, allreduce_log, tree,
                 nodes, split_conditions, space, nodes_offsets, mem_blocks,
                 left_right_nodes_sizes, next_task, pre_row_indices,
                 pre_elems>>

\* collective::Allreduce: every worker gets the aggregate of all buffers
AllreduceOr(bufs) ==
  [k \in 1 .. Len(bufs[0]) |-> UNION {bufs[w][k] : w \in Workers}]

AllreduceAnd(bufs) ==
  [k \in 1 .. Len(bufs[0]) |->
     {b \in 0 .. (kValueSize - 1) : \A w \in Workers : b \in bufs[w][k]}]

\* a helper that asks for the wrong operation
AllreduceDecisionOp_And(bufs) == AllreduceAnd(bufs)
AllreduceMissingOp_Or(bufs) == AllreduceOr(bufs)

\* the operations the helper asks for: kBitwiseOR for the decision bits,
\* kBitwiseAND for the missing bits
AllreduceDecisionOp(bufs) == AllreduceOr(bufs)
AllreduceMissingOp(bufs) == AllreduceAnd(bufs)

\* history: an all-reduce was invoked with operation op and came back ok or
\* failed
Invoked(op, ok) == [op |-> op, ok |-> ok]

\* a chain that goes on after a failed step
ResultThen_IgnoresFailure(ok, next) == next

\* collective::Success() << f << g; SafeColl(rc): a step runs only if the
\* result so far is OK, and a result that is not OK is fatal
ResultThen(ok, next) == IF ok THEN next ELSE "abort"

\* Allreduce(ctx, &decision_storage_, Op::kBitwiseOR)
AllreduceDecision ==
  /\ \A w \in Workers : pc[w] = "allreduce_decision"
  /\ decision_storage' =
       [w \in Workers |-> AllreduceDecisionOp(decision_storage)]
  /\ pc' = [w \in Workers |-> "allreduce_missing"]
  /\ allreduce_log' = Append(allreduce_log, Invoked("kBitwiseOR", TRUE))
  /\ UNCHANGED <<histVars, is_col_split, base_rowid, row_indices, elems, gmat, gmat_base_rowid, tree,
                 nodes, split_conditions, space, nodes_offsets, mem_blocks,
                 left_right_nodes_sizes, next_task, missing_storage,
                 tloc_decision, tloc_missing, local_decision, local_missing,
                 pre_row_indices, pre_elems>>

\* Allreduce(ctx, &missing_storage_, Op::kBitwiseAND); the second parallel
\* region starts
AllreduceMissing ==
  /\ \A w \in Workers : pc[w] = "allreduce_missing"
  /\ missing_storage' =
       [w \in Workers |-> AllreduceMissingOp(missing_storage)]
  /\ pc' = [w \in Workers |-> "partition_by_mask"]
  /\ next_task' = [w \in Workers |-> StartOfRegion(Len(space))]
  /\ allreduce_log' = Append(allreduce_log, Invoked("kBitwiseAND", TRUE))
  /\ UNCHANGED <<histVars, is_col_split, base_rowid, row_indices, elems, gmat, gmat_base_rowid, tree,
                 nodes, split_conditions, space, nodes_offsets, mem_blocks,
                 left_right_nodes_sizes, decision_storage, tloc_decision,
                 tloc_missing, local_decision, local_missing,
                 pre_row_indices, pre_elems>>

\* the all-reduce of the decision bits fails (transport): what it leaves in
\* the vectors is not read again
AllreduceDecisionFails ==
  /\ \A w \in Workers : pc[w] = "allreduce_decision"
  /\ pc' = [w \in Workers |-> ResultThen(FALSE, "allreduce_missing")]
  /\ allreduce_log' = Append(allreduce_log, Invoked("kBitwiseOR", FALSE))
  /\ UNCHANGED <<histVars, is_col_split, base_rowid, row_indices, elems, gmat,
                 gmat_base_rowid, tree, nodes, split_conditions, space,
                 nodes_offsets, mem_blocks, left_right_nodes_sizes, next_task,
                 decision_storage, missing_storage, tloc_decision,
                 tloc_missing, local_decision, local_missing,
                 pre_row_indices, pre_elems>>

\* the all-reduce of the missing bits fails
AllreduceMissingFails ==
  /\ \A w \in Workers : pc[w] = "allreduce_missing"
  /\ pc' = [w \in Workers |-> ResultThen(FALSE, "partition_by_mask")]
  /\ allreduce_log' = Append(allreduce_log, Invoked("kBitwiseAND", FALSE))
  /\ UNCHANGED <<histVars, is_col_split, base_rowid, row_indices, elems, gmat,
                 gmat_base_rowid, tree, nodes, split_conditions, space,
                 nodes_offsets, mem_blocks, left_right_nodes_sizes, next_task,
                 decision_storage, missing_storage, tloc_decision,
                 tloc_missing, local_decision, local_missing,
                 pre_row_indices, pre_elems>>

\* PartitionBuilder::PartitionByMask: a row with its missing bit follows the
\* default direction, any other row goes right iff its decision bit is set
MaskGoesLeft(w, row_id, nid, decision_bits, missing_bits) ==
  IF CheckBit(missing_bits, row_id - base_rowid[w])
  THEN DefaultLeft(tree, nid)
  ELSE ~CheckBit(decision_bits, row_id - base_rowid[w])

PartitionByMask(w, buf, nid, begin, end, rid, decision_bits, missing_bits) ==
  LET rows == Slice(buf, rid + begin, rid + end)
      left == SelectSeq(rows, LAMBDA r :
                MaskGoesLeft(w, r, nid, decision_bits, missing_bits))
      right == SelectSeq(rows, LAMBDA r :
                 ~MaskGoesLeft(w, r, nid, decision_bits, missing_bits))
  IN [EmptyBlock EXCEPT !.n_left = Len(left), !.n_right = Len(right),
                        !.left = left, !.right = right]

\* the second parallel region: task k of the space
PartitionByMaskTaskResult(w, k) ==
  LET task == space[k + 1]
      node_in_set == task.node_in_set
      nid == nodes[node_in_set + 1]
      task_id == GetTaskIdx(nodes_offsets, node_in_set, task.begin)
  IN [mem_blocks[w] EXCEPT ![task_id + 1] =
        PartitionByMask(w, row_indices[w], nid, task.begin, task.end,
                        elems[w][nid].begin, decision_storage[w],
                        missing_storage[w])]

PartitionByMaskTask(w, tid) ==
  /\ pc[w] = "partition_by_mask"
  /\ next_task[w][tid] < ThreadEnd(tid, Len(space))
  /\ mem_blocks' =
       [mem_blocks EXCEPT
          ![w] = PartitionByMaskTaskResult(w, next_task[w][tid])]
  /\ next_task' = [next_task EXCEPT ![w][tid] = @ + 1]
  /\ UNCHANGED <<histVars, is_col_split, base_rowid, row_indices, elems, gmat, gmat_base_rowid, allreduce_log, tree,
                 nodes, pc, split_conditions, space, nodes_offsets,
                 left_right_nodes_sizes, decision_storage, missing_storage,
                 tloc_decision, tloc_missing, local_decision, local_missing,
                 pre_row_indices, pre_elems>>

(***************************************************************************)
(* The single-worker path run by one thread on all features, from the      *)
(* buffer and ranges the running call began with: partition every task,    *)
(* CalculateRowOffsets, merge every task, AddSplitsToRowSet.               *)
(***************************************************************************)
SingleWorkerBlock(w, k) ==
  LET task == space[k + 1]
      nid == nodes[task.node_in_set + 1]
  IN Partition(GlobalBinsOfNode(w, nid),
               pre_row_indices[w], task.begin, task.end,
               SplitCondOf(split_conditions, task.node_in_set),
               DefaultLeft(tree, nid), pre_elems[w][nid].begin)

SingleWorkerBlocks(w) ==
  CalculateRowOffsets([k \in 1 .. Len(space) |-> SingleWorkerBlock(w, k - 1)],
                      nodes_offsets)

RECURSIVE SingleWorkerMergeFrom(_, _, _)
SingleWorkerMergeFrom(w, k, buf) ==
  IF k >= Len(space) THEN buf
  ELSE LET task == space[k + 1]
           nid == nodes[task.node_in_set + 1]
       IN SingleWorkerMergeFrom(w, k + 1,
            MergeToArray(buf, SingleWorkerBlocks(w), nodes_offsets,
                         task.node_in_set, task.begin,
                         pre_elems[w][nid].begin))

SingleWorkerRows(w) == SingleWorkerMergeFrom(w, 0, pre_row_indices[w])

SingleWorkerElems(w) ==
  AddSplitsFrom(NodesSizes(SingleWorkerBlocks(w), nodes_offsets), 1,
                pre_elems[w]).elems

(***************************************************************************)
(* The partitioner: one UpdatePosition call after another, the tasks of a  *)
(* parallel region interleaved thread by thread.                           *)
(***************************************************************************)
Next ==
  \/ Reset
  \/ UpdatePositionBegin
  \/ \E w \in Workers, tid \in Threads : PartitionTask(w, tid)
  \/ \E w \in Workers, tid \in Threads : MaskTask(w, tid)
  \/ \E w \in Workers : ReduceThreadLocal(w)
  \/ AllreduceDecision
  \/ AllreduceMissing
  \/ AllreduceDecisionFails
  \/ AllreduceMissingFails
  \/ \E w \in Workers, tid \in Threads : PartitionByMaskTask(w, tid)
  \/ \E w \in Workers, tid \in Threads : AllocateForTaskFails(w, tid)
  \/ \E w \in Workers : CalculateRowOffsetsStep(w)
  \/ \E w \in Workers, tid \in Threads : MergeTask(w, tid)
  \/ \E w \in Workers : AddSplitsToRowSet(w)
  \/ Return

Spec == Init /\ [][Next]_vars

(***************************************************************************)
(* Properties of the partitioner.                                          *)
(***************************************************************************)
\* the row ids of a partitioner: base_rowid .. base_rowid + N - 1
RowIds(w) == base_rowid[w] .. (base_rowid[w] + NumRow - 1)

\* the leaves of the tree
Leaves == {n \in 0 .. (Len(tree) - 1) : IsLeaf(tree, n)}

\* the nodes of the running call and their children
CallNodes == {nodes[i] : i \in 1 .. Len(nodes)}
CallChildren ==
  {LeftChild(tree, n) : n \in CallNodes} \cup
  {RightChild(tree, n) : n \in CallNodes}

\* no call is running on worker w: Reset or the last call has completed
Settled(w) == pc[w] \in {"idle", "done"}

\* the number of times v occurs in seq
Count(seq, v) == Cardinality({i \in 1 .. Len(seq) : seq[i] = v})

\* the two sequences hold the same multiset
SameMultiset(s1, s2) ==
  /\ Len(s1) = Len(s2)
  /\ \A i \in 1 .. Len(s1) : Count(s1, s1[i]) = Count(s2, s1[i])

\* the set of the elements of seq
Elements(seq) == {seq[i] : i \in 1 .. Len(seq)}

\* the rows of a range of a buffer
RowsOf(buf, e) == Slice(buf, e.begin, e.end)

\* C1: after Reset and any sequence of UpdatePosition calls the ranges of
\* the leaves are pairwise disjoint, their union is the whole buffer, and
\* the buffer holds the row ids base .. base + N - 1, each once.
C1_LeafRangesPartitionBuffer ==
  \A w \in ActiveWorkers :
    Settled(w) =>
      /\ \A n \in Leaves :
           /\ elems[w][n].node_id = n
           /\ 0 <= elems[w][n].begin
           /\ elems[w][n].begin <= elems[w][n].end
           /\ elems[w][n].end <= NumRow
      /\ \A n \in Leaves, m \in Leaves :
           n # m => \/ elems[w][n].end <= elems[w][m].begin
                    \/ elems[w][m].end <= elems[w][n].begin
      /\ \A p \in 0 .. (NumRow - 1) :
           \E n \in Leaves : elems[w][n].begin <= p /\ p < elems[w][n].end
      /\ Len(row_indices[w]) = NumRow
      /\ \A v \in RowIds(w) : Count(row_indices[w], v) = 1

\* two calls have completed on a buffer that starts at a non-zero row id and
\* is no longer in its initial order
C1_Witness ==
  /\ Settled(0)
  /\ Len(tree) >= 5
  /\ base_rowid[0] = 1
  /\ row_indices[0] # Iota(NumRow, 1)
  /\ \E n \in Leaves : ElemSize(elems[0][n]) >= 2

\* C2: for every node of an UpdatePosition call, the multiset of row ids in
\* the node's range after the call is the multiset that was there before.
C2_PartitionPreservesMultiset ==
  \A w \in ActiveWorkers :
    pc[w] = "done" =>
      \A n \in CallNodes :
        SameMultiset(RowsOf(row_indices[w], pre_elems[w][n]),
                     RowsOf(pre_row_indices[w], pre_elems[w][n]))

\* a call over two blocks of one node has completed and moved its rows
C2_Witness ==
  /\ pc[0] = "done"
  /\ \E n \in CallNodes :
       /\ ElemSize(pre_elems[0][n]) > kPartitionBlockSize
       /\ RowsOf(row_indices[0], pre_elems[0][n])
            # RowsOf(pre_row_indices[0], pre_elems[0][n])

\* the rows of node n (of the running call) that belong left: the bin of the
\* split feature is at most the split condition, or the cell is missing and
\* the default direction is left
BelongLeft(w, n, split_condition) ==
  {r \in Elements(RowsOf(pre_row_indices[w], pre_elems[w][n])) :
     LET bin == GlobalBin(w, r, SplitIndex(tree, n))
     IN \/ bin # Missing /\ bin <= split_condition
        \/ bin = Missing /\ DefaultLeft(tree, n)}

\* C3: after UpdatePosition the left child's range holds exactly the
\* parent's rows with bin <= split_condition (and the missing rows when the
\* default is left), the right child's range holds the others, and the sizes
\* of the two ranges are n_left and n_right.
C3_ChildrenHoldTheirRows ==
  \A w \in ActiveWorkers :
    pc[w] = "done" =>
      \A i \in 1 .. Len(nodes) :
        LET n == nodes[i]
            parent == Elements(RowsOf(pre_row_indices[w], pre_elems[w][n]))
            lefts == BelongLeft(w, n, split_conditions[i])
            l == elems[w][LeftChild(tree, n)]
            r == elems[w][RightChild(tree, n)]
        IN /\ Elements(RowsOf(row_indices[w], l)) = lefts
           /\ Elements(RowsOf(row_indices[w], r)) = parent \ lefts
           /\ ElemSize(l) = left_right_nodes_sizes[w][i].n_left
           /\ ElemSize(r) = left_right_nodes_sizes[w][i].n_right
           /\ ElemSize(l) = Cardinality(lefts)
           /\ ElemSize(r) = Cardinality(parent \ lefts)

\* a single-worker call has split a node into a larger left and a smaller
\* right child, a missing row among them
C3_Witness ==
  /\ ~is_col_split
  /\ pc[0] = "done"
  /\ \E i \in 1 .. Len(nodes) :
       /\ left_right_nodes_sizes[0][i].n_left
            > left_right_nodes_sizes[0][i].n_right
       /\ left_right_nodes_sizes[0][i].n_right > 0
       /\ \E r \in Elements(RowsOf(pre_row_indices[0], pre_elems[0][nodes[i]])) :
            GlobalBin(0, r, SplitIndex(tree, nodes[i])) = Missing

\* the buffer positions inside the ranges of the nodes of the running call
CallPositions(w) ==
  {p \in 0 .. (NumRow - 1) :
     \E n \in CallNodes :
       pre_elems[w][n].begin <= p /\ p < pre_elems[w][n].end}

\* C4: an UpdatePosition call changes the buffer only inside the ranges of
\* its nodes, and leaves the range of every other node as it was.
C4_OnlyCallRangesChange ==
  \A w \in ActiveWorkers :
    pc[w] \notin {"idle", "abort"} =>
      /\ \A p \in (0 .. (NumRow - 1)) \ CallPositions(w) :
           row_indices[w][p + 1] = pre_row_indices[w][p + 1]
      /\ \A n \in NodeIds \ (CallNodes \cup CallChildren) :
           elems[w][n] = pre_elems[w][n]

\* a call on the second child alone has re-ordered its rows, while the first
\* child owns rows in front of it
C4_Witness ==
  /\ pc[0] = "done"
  /\ nodes = <<2>>
  /\ pre_elems[0][2].begin > 0
  /\ row_indices[0] # pre_row_indices[0]

\* C5: the column-split path gives every worker the child ranges, in
\* boundaries and in row order, of the single-worker path on all features.
C5_ColumnSplitEqualsSingleWorker ==
  \A w \in Workers :
    (is_col_split /\ pc[w] = "done") =>
      /\ row_indices[w] = SingleWorkerRows(w)
      /\ elems[w] = SingleWorkerElems(w)

\* a column-split call on a feature of either worker has completed with
\* rows on both sides
C5_Witness ==
  /\ is_col_split
  /\ \A w \in Workers : pc[w] = "done"
  /\ \E i \in 1 .. Len(nodes) :
       /\ SplitIndex(tree, nodes[i]) = 1
       /\ left_right_nodes_sizes[0][i].n_left > 0
       /\ left_right_nodes_sizes[0][i].n_right > 0
       /\ row_indices[0] # pre_row_indices[0]

\* the single-worker path itself ends, under every interleaving of its
\* tasks, in the result of its one-thread run
SingleWorkerPathIsSequential ==
  (~is_col_split /\ pc[0] = "done") =>
    /\ row_indices[0] = SingleWorkerRows(0)
    /\ elems[0] = SingleWorkerElems(0)

\* the bit positions of a vector of n words
BitsOf(n) == 0 .. (n * kValueSize - 1)

\* both all-reduces of the running call are done on every worker
AfterAllreduces ==
  /\ is_col_split
  /\ \A w \in Workers : pc[w] \in {"partition_by_mask", "merge", "done"}

\* C6: after the two all-reduces every decision bit is the OR of the
\* workers' local decision bits and every missing bit is the AND of the
\* workers' local missing bits.
C6_AllreduceOrAnd ==
  AfterAllreduces =>
    \A w \in Workers :
      /\ Len(decision_storage[w]) = ComputeStorageSize(NumRow)
      /\ Len(missing_storage[w]) = ComputeStorageSize(NumRow)
      /\ \A i \in BitsOf(ComputeStorageSize(NumRow)) :
           /\ CheckBit(decision_storage[w], i)
                <=> \E v \in Workers : CheckBit(local_decision[v], i)
           /\ CheckBit(missing_storage[w], i)
                <=> \A v \in Workers : CheckBit(local_missing[v], i)

\* a decision bit set by one worker only, a row missing on one worker only
\* and a row missing on every worker
C6_Witness ==
  /\ AfterAllreduces
  /\ \E i \in BitsOf(ComputeStorageSize(NumRow)) :
       \E v \in Workers, u \in Workers :
         CheckBit(local_decision[v], i) /\ ~CheckBit(local_decision[u], i)
  /\ \E i \in BitsOf(ComputeStorageSize(NumRow)) :
       \E v \in Workers, u \in Workers :
         CheckBit(local_missing[v], i) /\ ~CheckBit(local_missing[u], i)
  /\ \E i \in BitsOf(ComputeStorageSize(NumRow)) :
       \A v \in Workers : CheckBit(local_missing[v], i)

(***************************************************************************)
(* The device histogram build (plugin/sycl/common/hist_util.cc).           *)
(*                                                                         *)
(* Gradient pairs are pairs of integers, so sums are exact: what rounding  *)
(* does to a sum is outside this model.  A command group runs when the     *)
(* event it depends on is complete.  The work-items of a build kernel are  *)
(* interleaved step by step.  A fill, a reduction and a subtraction write  *)
(* every element once, from data no work-item of the same command writes:  *)
(* each runs as one step.                                                  *)
(***************************************************************************)
\* GradientPairT(0, 0) and the arithmetic of pairs
ZeroPair == <<0, 0>>

PairAdd(a, b) == <<a[1] + b[1], a[2] + b[2]>>

PairSub(a, b) == <<a[1] - b[1], a[2] - b[2]>>

RECURSIVE SumPairs(_)
SumPairs(seq) ==
  IF seq = <<>> THEN ZeroPair ELSE PairAdd(seq[1], SumPairs(Tail(seq)))

\* what a histogram or the scratch holds before anyone wrote it
PriorPair == <<7, 5>>

\* gpair: the gradient pair of row id r; the gradients tell the rows apart
Pgh(r) == <<3 ^ r, 1>>

\* the histograms: of the left child, the parent, the right child built
\* directly, and the right child derived by subtraction
Slots == {"L", "P", "R", "S"}

\* row_indices of a node: the range [begin, end) of the row-index buffer
NodeRange(slot) ==
  CASE slot = "L" -> [begin |-> 0, end |-> h_split]
    [] slot = "P" -> [begin |-> 0, end |-> NumRow]
    [] OTHER      -> [begin |-> h_split, end |-> NumRow]

\* row_indices.Size() and rid[i]
Size(slot) == NodeRange(slot).end - NodeRange(slot).begin

Rid(slot, i) == h_rid[NodeRange(slot).begin + i + 1]

\* the stored cells of a row of a sparse matrix: its global bins, in feature
\* order
RowEntries(r) == SelectSeq(gmat[r + 1], LAMBDA b : b # Missing)

RECURSIVE MaxLen(_)
MaxLen(rows) ==
  IF rows = {} THEN 0
  ELSE LET r == CHOOSE x \in rows : TRUE
           m == MaxLen(rows \ {r})
       IN  IF Len(RowEntries(r)) > m THEN Len(RowEntries(r)) ELSE m

\* gmat.row_stride: the cells stored per row of a sparse matrix
RowStride == MaxLen(0 .. (NumRow - 1))

\* gmat.index: a dense matrix stores the bin within the feature, a sparse one
\* the global bin, a row padded to row_stride with the number of bins
GradientIndex(r, j) ==
  IF h_dense THEN gmat[r + 1][j + 1] - Ptrs[j + 1]
  ELSE IF j < Len(RowEntries(r)) THEN RowEntries(r)[j + 1] ELSE NBins

\* n_columns of the buffered and the atomic kernel
NColumns == IF h_dense THEN NumFeatures ELSE RowStride

\* blocks the scratch has room for: hist_buffer->Size() / nbins
MaxNBlocks == (NumRow + 1) \div 2

\* the configuration the dispatcher gives for a node of `size` rows
HistDispatcher(size) ==
  [work_group_size |-> h_cfg.work_group_size,
   block |-> [size |-> h_cfg.block_size,
              nblocks |-> (size + h_cfg.block_size - 1) \div h_cfg.block_size],
   use_local_hist |-> h_cfg.use_local_hist,
   use_atomics |-> h_cfg.use_atomics]

NBlocks(slot) == HistDispatcher(Size(slot)).block.nblocks

BlockSize(slot) == HistDispatcher(Size(slot)).block.size

WorkGroupSize(slot) == HistDispatcher(Size(slot)).work_group_size

\* the configurations tried: what the dispatcher gives and the test hook.
\* use_local_hist only for a dense matrix; the hook forces the atomic kernel
\* where the dispatcher chose local histograms; the atomic kernel does not
\* read the block size, so one is tried
Configs ==
  {c \in [work_group_size : 1 .. MaxWorkGroupSize,
          block_size : 2 .. MaxBlockSize,
          use_atomics : BOOLEAN,
          use_local_hist : BOOLEAN,
          force_atomic_use : BOOLEAN] :
     /\ c.use_local_hist => h_dense
     /\ c.use_atomics => ~c.use_local_hist
     /\ c.force_atomic_use => (c.use_local_hist /\ ~c.use_atomics)
     /\ (c.use_atomics \/ c.force_atomic_use) => c.block_size = 2}

\* the orders of the row-index buffer tried
Reverse(seq) == [k \in 1 .. Len(seq) |-> seq[Len(seq) + 1 - k]]

RowOrders == {Iota(NumRow, 0), Reverse(Iota(NumRow, 0))}

\* where the parent's rows are split into the children's
Splits == {1, NumRow \div 2}

\* nothing is partitioned while the histogram build is studied
PartIdle ==
  /\ is_col_split = FALSE
  /\ base_rowid = [w \in Workers |-> 0]
  /\ row_indices = [w \in Workers |-> <<>>]
  /\ elems = [w \in Workers |-> <<>>]
  /\ tree = <<LeafNode>>
  /\ nodes = <<>>
  /\ pc = [w \in Workers |-> "idle"]
  /\ split_conditions = <<>>
  /\ space = <<>>
  /\ nodes_offsets = <<0>>
  /\ mem_blocks = [w \in Workers |-> <<>>]
  /\ left_right_nodes_sizes = [w \in Workers |-> <<>>]
  /\ next_task = [w \in Workers |-> [tid \in Threads |-> 0]]
  /\ decision_storage = [w \in Workers |-> <<>>]
  /\ missing_storage = [w \in Workers |-> <<>>]
  /\ tloc_decision = [w \in Workers |-> <<>>]
  /\ tloc_missing = [w \in Workers |-> <<>>]
  /\ local_decision = [w \in Workers |-> <<>>]
  /\ local_missing = [w \in Workers |-> <<>>]
  /\ pre_row_indices = [w \in Workers |-> <<>>]
  /\ pre_elems = [w \in Workers |-> <<>>]
  /\ gmat_base_rowid = 0
  /\ allreduce_log = <<>>

\* the start of a caller that asks for the histograms of prog
HistStart(prog) ==
  /\ PartIdle
  /\ h_prog = prog
  /\ gmat = (IF h_dense THEN DenseMatrixOf(0) ELSE MatrixOf(0))
  /\ h_split \in Splits
  /\ hist = [s \in Slots |-> [b \in 1 .. NBins |-> PriorPair]]
  /\ hist_buffer = [k \in 1 .. (MaxNBlocks * NBins) |-> PriorPair]
  /\ cmds = <<>>
  /\ lanes = <<>>
  /\ host_pc = 1
  /\ last_token = 0
  /\ sub_after_builds = FALSE

\* the caller builds the right child, then the parent; every configuration
\* and both orders of the rows
BuildInit ==
  /\ h_dense \in BOOLEAN
  /\ h_rid \in RowOrders
  /\ h_cfg \in Configs
  /\ HistStart(<<"R", "P">>)

\* the caller builds the left child, the parent and the right child, then
\* derives the right child by subtraction; every kernel, with the largest
\* work-group and the smallest block
SubtractInit ==
  /\ h_dense \in BOOLEAN
  /\ h_rid = Reverse(Iota(NumRow, 0))
  /\ h_cfg \in {c \in Configs : /\ c.work_group_size = MaxWorkGroupSize
                                /\ c.block_size = 2}
  /\ HistStart(<<"L", "P", "R", "S">>)

(***************************************************************************)
(* The caller: BuildHist and SubtractionTrick submit command groups.       *)
(***************************************************************************)
\* a command group: what runs, the histogram it is for, the event it depends
\* on (0: a default-constructed event, complete) and how far it is
Cmd(kind, slot, dep) ==
  [kind |-> kind, slot |-> slot, dep |-> dep, st |-> "submitted"]

\* the buffered kernel: fill, main, ReduceHist; n commands precede it
BuildHistKernelBuffered(slot, event_priv, n) ==
  << Cmd("fill_buffer", slot, event_priv),
     Cmd("main_buffered", slot, n + 1),
     Cmd("reduce", slot, n + 2) >>

\* a kernel with local histograms whose main step waits for nothing
BuildHistKernelLocal_NoDep(slot, event_priv, n) ==
  << Cmd("main_local", slot, 0),
     Cmd("reduce", slot, n + 1) >>

\* the kernel with local histograms: main, ReduceHist; no fill
BuildHistKernelLocal(slot, event_priv, n) ==
  << Cmd("main_local", slot, event_priv),
     Cmd("reduce", slot, n + 1) >>

\* the atomic kernel: fill of the histogram, main
BuildHistKernelAtomic(slot, event_priv, n) ==
  << Cmd("fill_hist", slot, event_priv),
     Cmd("main_atomic", slot, n + 1) >>

\* a dispatch that does not look at isDense
BuildHistDispatchKernel_AnyLayout(slot, events_priv, force_atomic_use, n) ==
  LET dispatcher == HistDispatcher(Size(slot))
      use_atomic == dispatcher.use_atomics \/ force_atomic_use
  IN  IF ~use_atomic
      THEN IF dispatcher.use_local_hist
           THEN BuildHistKernelLocal(slot, events_priv, n)
           ELSE BuildHistKernelBuffered(slot, events_priv, n)
      ELSE BuildHistKernelAtomic(slot, events_priv, n)

BuildHistDispatchKernel(slot, events_priv, force_atomic_use, n) ==
  LET dispatcher == HistDispatcher(Size(slot))
      use_atomic == dispatcher.use_atomics \/ force_atomic_use
  IN  IF ~use_atomic
      THEN IF h_dense /\ dispatcher.use_local_hist
           THEN BuildHistKernelLocal(slot, events_priv, n)
           ELSE BuildHistKernelBuffered(slot, events_priv, n)
      ELSE BuildHistKernelAtomic(slot, events_priv, n)

\* GHistBuilder::BuildHist: the caller chains the build after its last one
BuildHist ==
  /\ host_pc <= Len(h_prog)
  /\ h_prog[host_pc] # "S"
  /\ LET slot == h_prog[host_pc]
         new == BuildHistDispatchKernel(slot, last_token,
                                        h_cfg.force_atomic_use, Len(cmds))
     IN  /\ cmds' = cmds \o new
         /\ last_token' = Len(cmds) + Len(new)
  /\ host_pc' = host_pc + 1
  /\ UNCHANGED <<partVars, histInputs, hist, hist_buffer,
                 lanes, sub_after_builds>>

\* SubtractionHist(qu, dst, src1, src2, size, event_priv): the command
SubtractionHistCmd(dst, event_priv) == Cmd("subtract", dst, event_priv)

\* a SubtractionTrick that compares the parent's size only
SizesChecked_ParentOnly(self, sibling, parent) == Len(parent) = Len(self)

\* CHECK_EQ(sibling.Size(), size); CHECK_EQ(parent.Size(), size)
SizesChecked(self, sibling, parent) ==
  /\ Len(sibling) = Len(self)
  /\ Len(parent) = Len(self)

\* the caller's position after a fatal check: it submits nothing more
HostAborted == host_pc = Len(h_prog) + 2

\* GHistBuilder::SubtractionTrick(self, sibling, parent): after the two size
\* checks the subtraction is submitted; it depends on a default-constructed
\* event and its event is dropped
SubtractionTrick ==
  /\ host_pc >= 1
  /\ host_pc <= Len(h_prog)
  /\ h_prog[host_pc] = "S"
  /\ IF SizesChecked(hist["S"], hist["L"], hist["P"])
     THEN /\ cmds' = Append(cmds, SubtractionHistCmd("S", 0))
          /\ host_pc' = host_pc + 1
     ELSE /\ cmds' = cmds
          /\ host_pc' = Len(h_prog) + 2
  /\ UNCHANGED <<partVars, histInputs, hist, hist_buffer,
                 lanes, last_token, sub_after_builds>>

(***************************************************************************)
(* The device queue.                                                       *)
(***************************************************************************)
EventComplete(e) == IF e = 0 THEN TRUE ELSE cmds[e].st = "complete"

\* submitting reads nothing the device writes, so a run is a run in which the
\* caller has submitted all its commands before the first one starts
HostDone == host_pc > Len(h_prog)

RunningMain == {c \in DOMAIN cmds : cmds[c].st = "running"}

\* the device runs one command group at a time, in any order the events allow
Ready(c) ==
  /\ HostDone
  /\ RunningMain = {}
  /\ cmds[c].st = "submitted"
  /\ EventComplete(cmds[c].dep)

SetSt(c, st) == [cmds EXCEPT ![c].st = st]

\* the build of a histogram is complete when its last command is
BuildDone(slot) ==
  \E c \in DOMAIN cmds :
    /\ cmds[c].slot = slot
    /\ cmds[c].kind \in {"reduce", "main_atomic"}
    /\ cmds[c].st = "complete"

\* a fill that leaves the scratch as it is
FillBuffer_None(buf, n) == buf

\* qu->fill(hist_buffer_data, GradientPairT(0, 0), nblocks * nbins, event_priv)
FillBuffer(buf, n) == [k \in DOMAIN buf |-> IF k <= n THEN ZeroPair ELSE buf[k]]

\* qu->fill(hist_data, FPType(0), nbins * 2, event_priv)
FillHist(h) == [b \in DOMAIN h |-> ZeroPair]

Fill(c) ==
  /\ Ready(c)
  /\ cmds[c].kind \in {"fill_buffer", "fill_hist"}
  /\ IF cmds[c].kind = "fill_buffer"
     THEN /\ hist_buffer' = FillBuffer(hist_buffer, NBlocks(cmds[c].slot) * NBins)
          /\ hist' = hist
     ELSE /\ hist' = [hist EXCEPT ![cmds[c].slot] = FillHist(@)]
          /\ hist_buffer' = hist_buffer
  /\ cmds' = SetSt(c, "complete")
  /\ UNCHANGED <<partVars, histInputs, lanes, host_pc,
                 last_token, sub_after_builds>>

\* a work-item: the row of its block it is at, the column, what it does next
\* and the pair it has read
Lane(idx, j, stage, reg) == [idx |-> idx, j |-> j, stage |-> stage, reg |-> reg]

LaneDone == Lane(0, 0, "done", ZeroPair)

\* idx_bin of the buffered and the atomic kernel: a dense matrix stores the
\* bin within the feature
IdxBin_NoOffsets(r, j) == GradientIndex(r, j)

IdxBin(r, j) ==
  GradientIndex(r, j) + (IF h_dense THEN Ptrs[j + 1] ELSE 0)

\* pgh_row of row id r
PghRow_Swapped(r) == <<Pgh(r)[2], Pgh(r)[1]>>

PghRow(r) == <<Pgh(r)[1], Pgh(r)[2]>>

\* a buffered kernel that stops after the first row of every block
BufferedRow_FirstRowOnly(slot, block, idx) ==
  IF idx < 1 /\ block * BlockSize(slot) + idx < Size(slot)
  THEN Lane(idx, 0, "barrier", ZeroPair)
  ELSE LaneDone

\* the buffered kernel, from row idx of the block on: the work-item waits at
\* the barrier of the next row of the block below size, or is done
BufferedRow(slot, block, idx) ==
  IF idx < BlockSize(slot) /\ block * BlockSize(slot) + idx < Size(slot)
  THEN Lane(idx, 0, "barrier", ZeroPair)
  ELSE LaneDone

\* the buffered kernel, from column j of row idx on: the work-item is about
\* to add to the next bin below nbins, or goes to the next row
RECURSIVE BufferedColumn(_, _, _, _)
BufferedColumn(slot, block, idx, j) ==
  IF j >= NColumns THEN BufferedRow(slot, block, idx + 1)
  ELSE IF IdxBin(Rid(slot, block * BlockSize(slot) + idx), j) < NBins
       THEN Lane(idx, j, "read", ZeroPair)
       ELSE BufferedColumn(slot, block, idx, j + WorkGroupSize(slot))

\* a kernel with local histograms that leaves out the last feature
LocalFeature_SkipsLast(fid) ==
  IF fid < NumFeatures - 1 THEN Lane(0, fid, "feature", ZeroPair) ELSE LaneDone

\* the kernel with local histograms: the work-item is at feature fid, or done
LocalFeature(fid) ==
  IF fid < NumFeatures THEN Lane(0, fid, "feature", ZeroPair) ELSE LaneDone

\* an atomic kernel without the test idx_bin < nbins
AtomicLane_NoBinTest(slot, i, j) ==
  IF j < NColumns THEN Lane(i, j, "add", ZeroPair) ELSE LaneDone

\* the atomic kernel: the work-item of row i and column j adds, or is done
AtomicLane(slot, i, j) ==
  IF j < NColumns /\ IdxBin(Rid(slot, i), j) < NBins
  THEN Lane(i, j, "add", ZeroPair)
  ELSE LaneDone

\* n_work_groups rounded down
NWorkGroups_RoundedDown(slot) == NColumns \div WorkGroupSize(slot)

\* n_work_groups of the atomic kernel
NWorkGroups(slot) ==
  (NColumns \div WorkGroupSize(slot))
  + (IF NColumns % WorkGroupSize(slot) > 0 THEN 1 ELSE 0)

\* the work-items of the nd_range of a build kernel, at their start
StartLanes(c) ==
  LET slot == cmds[c].slot
  IN  CASE cmds[c].kind = "main_buffered" ->
             [l \in (0 .. (NBlocks(slot) - 1)) \X (0 .. (WorkGroupSize(slot) - 1))
                |-> BufferedRow(slot, l[1], 0)]
        [] cmds[c].kind = "main_local" ->
             [l \in (0 .. (NBlocks(slot) - 1)) \X (0 .. (WorkGroupSize(slot) - 1))
                |-> LocalFeature(l[2])]
        [] OTHER ->
             [l \in (0 .. (Size(slot) - 1))
                      \X (0 .. (NWorkGroups(slot) * WorkGroupSize(slot) - 1))
                |-> AtomicLane(slot, l[1], l[2])]

\* the queue starts a build kernel
StartMain(c) ==
  /\ Ready(c)
  /\ cmds[c].kind \in {"main_buffered", "main_local", "main_atomic"}
  /\ lanes' = StartLanes(c)
  /\ cmds' = SetSt(c, "running")
  /\ UNCHANGED <<partVars, histInputs, hist, hist_buffer,
                 host_pc, last_token, sub_after_builds>>

\* position of bin idx_bin of hist_local of a block in the scratch
HistLocal(block, idx_bin) == block * NBins + idx_bin + 1

\* a barrier that lets a work-item go on without the others of its group
Barrier_PerLane(c, block) ==
  /\ cmds[c].st = "running" /\ cmds[c].kind = "main_buffered"
  /\ \E l \in DOMAIN lanes :
       /\ l[1] = block
       /\ lanes[l].stage = "barrier"
       /\ lanes' = [lanes EXCEPT ![l] =
            BufferedColumn(cmds[c].slot, block, lanes[l].idx, l[2])]
  /\ UNCHANGED <<partVars, histInputs, hist, hist_buffer,
                 cmds, host_pc, last_token, sub_after_builds>>

\* pid.barrier: the work-items of a work-group, all at the barrier, go on
Barrier(c, block) ==
  /\ cmds[c].st = "running" /\ cmds[c].kind = "main_buffered"
  /\ \E l \in DOMAIN lanes : l[1] = block
  /\ \A l \in DOMAIN lanes : l[1] = block => lanes[l].stage = "barrier"
  /\ lanes' = [l \in DOMAIN lanes |->
                 IF l[1] = block
                 THEN BufferedColumn(cmds[c].slot, block, lanes[l].idx, l[2])
                 ELSE lanes[l]]
  /\ UNCHANGED <<partVars, histInputs, hist, hist_buffer,
                 cmds, host_pc, last_token, sub_after_builds>>

\* hist_local[idx_bin] += pgh_row is a load, an addition and a store
BufferedRead(c, l) ==
  /\ cmds[c].st = "running" /\ cmds[c].kind = "main_buffered"
  /\ l \in DOMAIN lanes /\ lanes[l].stage = "read"
  /\ LET slot == cmds[c].slot
         r == Rid(slot, l[1] * BlockSize(slot) + lanes[l].idx)
     IN  lanes' = [lanes EXCEPT ![l].stage = "write",
                                ![l].reg = hist_buffer[HistLocal(l[1], IdxBin(r, lanes[l].j))]]
  /\ UNCHANGED <<partVars, histInputs, hist, hist_buffer,
                 cmds, host_pc, last_token, sub_after_builds>>

\* a store of pgh_row in place of the sum
BufferedWrite_Overwrite(c, l) ==
  /\ cmds[c].st = "running" /\ cmds[c].kind = "main_buffered"
  /\ l \in DOMAIN lanes /\ lanes[l].stage = "write"
  /\ LET slot == cmds[c].slot
         r == Rid(slot, l[1] * BlockSize(slot) + lanes[l].idx)
     IN  /\ hist_buffer' =
              [hist_buffer EXCEPT ![HistLocal(l[1], IdxBin(r, lanes[l].j))] =
                 PghRow(r)]
         /\ lanes' = [lanes EXCEPT ![l] =
              BufferedColumn(slot, l[1], lanes[l].idx,
                             lanes[l].j + WorkGroupSize(slot))]
  /\ UNCHANGED <<partVars, histInputs, hist, cmds, host_pc,
                 last_token, sub_after_builds>>

BufferedWrite(c, l) ==
  /\ cmds[c].st = "running" /\ cmds[c].kind = "main_buffered"
  /\ l \in DOMAIN lanes /\ lanes[l].stage = "write"
  /\ LET slot == cmds[c].slot
         r == Rid(slot, l[1] * BlockSize(slot) + lanes[l].idx)
     IN  /\ hist_buffer' =
              [hist_buffer EXCEPT ![HistLocal(l[1], IdxBin(r, lanes[l].j))] =
                 PairAdd(lanes[l].reg, PghRow(r))]
         /\ lanes' = [lanes EXCEPT ![l] =
              BufferedColumn(slot, l[1], lanes[l].idx,
                             lanes[l].j + WorkGroupSize(slot))]
  /\ UNCHANGED <<partVars, histInputs, hist, cmds, host_pc,
                 last_token, sub_after_builds>>

\* hist_fast of a work-item after its sweep of the rows of its block for
\* feature fid: bin k of the feature holds the sum over the rows stored as k
HistFast(slot, block, fid) ==
  [k \in 0 .. (Ptrs[fid + 2] - Ptrs[fid + 1] - 1) |->
     SumPairs([idx \in 1 .. BlockSize(slot) |->
       LET i == block * BlockSize(slot) + idx - 1
       IN  IF i < Size(slot) /\ GradientIndex(Rid(slot, i), fid) = k
           THEN PghRow(Rid(slot, i)) ELSE ZeroPair])]

\* the kernel with local histograms: a work-item sweeps its block for one
\* feature in private and stores the bins of the feature into hist_local
LocalSweep(c, l) ==
  /\ cmds[c].st = "running" /\ cmds[c].kind = "main_local"
  /\ l \in DOMAIN lanes /\ lanes[l].stage = "feature"
  /\ LET slot == cmds[c].slot
         fid == lanes[l].j
         hist_fast == HistFast(slot, l[1], fid)
     IN  /\ hist_buffer' =
              [k \in DOMAIN hist_buffer |->
                 IF \E bin \in DOMAIN hist_fast :
                      k = HistLocal(l[1], bin + Ptrs[fid + 1])
                 THEN hist_fast[k - 1 - l[1] * NBins - Ptrs[fid + 1]]
                 ELSE hist_buffer[k]]
         /\ lanes' = [lanes EXCEPT ![l] = LocalFeature(fid + WorkGroupSize(slot))]
  /\ UNCHANGED <<partVars, histInputs, hist, cmds, host_pc,
                 last_token, sub_after_builds>>

\* the atomic kernel: gsum += pgh_row[0]; hsum += pgh_row[1], each atomic, on
\* scalars nothing reads before the kernel is complete
AtomicAdd(c, l) ==
  /\ cmds[c].st = "running" /\ cmds[c].kind = "main_atomic"
  /\ l \in DOMAIN lanes /\ lanes[l].stage = "add"
  /\ LET slot == cmds[c].slot
         r == Rid(slot, l[1])
     IN  hist' = [hist EXCEPT ![slot][IdxBin(r, l[2]) + 1] = PairAdd(@, PghRow(r))]
  /\ lanes' = [lanes EXCEPT ![l] = LaneDone]
  /\ UNCHANGED <<partVars, histInputs, hist_buffer, cmds,
                 host_pc, last_token, sub_after_builds>>

\* the kernel is complete when every work-item is done
FinishMain(c) ==
  /\ cmds[c].st = "running"
  /\ \A l \in DOMAIN lanes : lanes[l].stage = "done"
  /\ cmds' = SetSt(c, "complete")
  /\ lanes' = <<>>
  /\ UNCHANGED <<partVars, histInputs, hist, hist_buffer,
                 host_pc, last_token, sub_after_builds>>

\* ReduceHist: bin idx_bin of the histogram is the sum of the bin over the
\* nblocks slices of the scratch
ReduceHistBin_FirstSlice(buf, nblocks, idx_bin) == buf[idx_bin + 1]

ReduceHistBin(buf, nblocks, idx_bin) ==
  SumPairs([j \in 1 .. nblocks |-> buf[(j - 1) * NBins + idx_bin + 1]])

ReduceHist(c) ==
  /\ Ready(c)
  /\ cmds[c].kind = "reduce"
  /\ hist' = [hist EXCEPT ![cmds[c].slot] =
       [b \in 1 .. NBins |->
          ReduceHistBin(hist_buffer, NBlocks(cmds[c].slot), b - 1)]]
  /\ cmds' = SetSt(c, "complete")
  /\ UNCHANGED <<partVars, histInputs, hist_buffer, lanes,
                 host_pc, last_token, sub_after_builds>>

\* SubtractionHist: pdst[i] = psrc1[i] - psrc2[i] over the 2 * size scalars
SubtractionHist_Reversed(src1, src2) ==
  [b \in DOMAIN src1 |-> PairSub(src2[b], src1[b])]

SubtractionHist(src1, src2) ==
  [b \in DOMAIN src1 |-> PairSub(src1[b], src2[b])]

\* the subtraction SubtractionTrick(self, sibling, parent) submitted:
\* SubtractionHist(qu_, self, parent, sibling, size, ::sycl::event())
Subtraction(c) ==
  /\ Ready(c)
  /\ cmds[c].kind = "subtract"
  /\ hist' = [hist EXCEPT ![cmds[c].slot] = SubtractionHist(hist["P"], hist["L"])]
  /\ sub_after_builds' = (BuildDone("P") /\ BuildDone("L"))
  /\ cmds' = SetSt(c, "complete")
  /\ UNCHANGED <<partVars, histInputs, hist_buffer, lanes,
                 host_pc, last_token>>

NextBuild ==
  \/ BuildHist
  \/ \E c \in DOMAIN cmds : Fill(c)
  \/ \E c \in DOMAIN cmds : StartMain(c)
  \/ \E c \in DOMAIN cmds, block \in 0 .. (MaxNBlocks - 1) : Barrier(c, block)
  \/ \E c \in DOMAIN cmds, l \in DOMAIN lanes : BufferedRead(c, l)
  \/ \E c \in DOMAIN cmds, l \in DOMAIN lanes : BufferedWrite(c, l)
  \/ \E c \in DOMAIN cmds, l \in DOMAIN lanes : LocalSweep(c, l)
  \/ \E c \in DOMAIN cmds, l \in DOMAIN lanes : AtomicAdd(c, l)
  \/ \E c \in DOMAIN cmds : FinishMain(c)
  \/ \E c \in DOMAIN cmds : ReduceHist(c)

SpecBuild == BuildInit /\ [][NextBuild]_vars

NextSubtract ==
  \/ NextBuild
  \/ SubtractionTrick
  \/ \E c \in DOMAIN cmds : Subtraction(c)

SpecSubtract == SubtractInit /\ [][NextSubtract]_vars

(***************************************************************************)
(* Properties of the histogram build.                                      *)
(***************************************************************************)
\* the histograms BuildHist builds
Built == {"L", "P", "R"}

\* the row ids of a node
NodeRows(slot) == {Rid(slot, i) : i \in 0 .. (Size(slot) - 1)}

\* the sum of the gradient pairs of a set of (row id, feature) cells
RECURSIVE SumCells(_)
SumCells(cells) ==
  IF cells = {} THEN ZeroPair
  ELSE LET x == CHOOSE y \in cells : TRUE
       IN  PairAdd(Pgh(x[1]), SumCells(cells \ {x}))

\* the cells of the rows of a node whose global bin is b
CellsWithBin(slot, b) ==
  {x \in NodeRows(slot) \X Features : gmat[x[1] + 1][x[2] + 1] = b}

\* the sum of the entries of a histogram over a set of bins
RECURSIVE SumBins(_, _)
SumBins(h, bins) ==
  IF bins = {} THEN ZeroPair
  ELSE LET b == CHOOSE y \in bins : TRUE
       IN  PairAdd(h[b + 1], SumBins(h, bins \ {b}))

\* the variant BuildHistDispatchKernel selects
Variant ==
  IF h_cfg.use_atomics \/ h_cfg.force_atomic_use THEN "atomic"
  ELSE IF h_dense /\ h_cfg.use_local_hist THEN "local" ELSE "buffered"

\* C7: after a device build of a node completes, every entry b of its
\* histogram is the sum of the gradient pairs over the (row, column) cells
\* of the node's rows whose global bin is b, whichever kernel ran
C7_HistogramIsCellSum ==
  \A slot \in Built :
    BuildDone(slot) =>
      \A b \in 0 .. (NBins - 1) :
        hist[slot][b + 1] = SumCells(CellsWithBin(slot, b))

\* a sparse parent is built, a bin of it holding more than one row
C7_Witness ==
  /\ ~h_dense
  /\ BuildDone("P")
  /\ \E b \in 1 .. NBins : hist["P"][b][2] >= 2
  /\ \E r \in NodeRows("P"), f \in Features : gmat[r + 1][f + 1] = Missing

\* the CPU builder: thread t sweeps the rows of the node assigned to it and,
\* for every column f below the stride, adds the pair of the row to bin k of
\* its private histogram when k < B; k is the stored index, plus offsets[f]
\* in dense form
CpuPrivate(slot, t) ==
  [b \in 1 .. NBins |->
     SumPairs([n \in 1 .. (Size(slot) * NColumns) |->
       LET i == (n - 1) \div NColumns
           f == (n - 1) % NColumns
           r == Rid(slot, i)
           k == GradientIndex(r, f) + (IF h_dense THEN Ptrs[f + 1] ELSE 0)
       IN  IF i % NumThreads = t /\ k < NBins /\ k = b - 1
           THEN Pgh(r) ELSE ZeroPair])]

\* the CPU builder: hist[b] is the sum over the threads of private[t][b]
CpuBuildHist(slot) ==
  [b \in 1 .. NBins |->
     SumPairs([t \in 1 .. NumThreads |-> CpuPrivate(slot, t - 1)[b]])]

\* C8: on the same matrix, rows and gradient pairs, the device build gives
\* the histogram of the CPU builder, for the buffered kernel, the kernel with
\* local histograms (dense) and the atomic kernel, for every block size,
\* work-group size and interleaving of the work-items
C8_DeviceEqualsCpu ==
  \A slot \in Built : BuildDone(slot) => hist[slot] = CpuBuildHist(slot)

\* a dense parent is built by the kernel with local histograms, with two
\* blocks and two work-items per block
C8_Witness ==
  /\ h_dense
  /\ Variant = "local"
  /\ BuildDone("P")
  /\ NBlocks("P") >= 2
  /\ WorkGroupSize("P") >= 2
  /\ hist["P"] = CpuBuildHist("P")

SubtractionDone ==
  \E c \in DOMAIN cmds : cmds[c].kind = "subtract" /\ cmds[c].st = "complete"

\* C9: once the subtraction has run on the complete histograms of the parent
\* and the left child, every entry of the derived histogram is the parent's
\* minus the sibling's, and the derived histogram is the histogram of the
\* right child built directly
C9_SubtractionGivesSibling ==
  (SubtractionDone /\ sub_after_builds) =>
    /\ \A b \in 1 .. NBins :
         hist["S"][b] = PairSub(hist["P"][b], hist["L"][b])
    /\ BuildDone("R") => hist["S"] = hist["R"]

\* the subtraction ran after both builds, the right child is built, and both
\* children have rows in a bin of the parent
C9_Witness ==
  /\ SubtractionDone /\ sub_after_builds
  /\ BuildDone("R")
  /\ hist["S"] = hist["R"]
  /\ \E b \in 1 .. NBins : hist["L"][b][2] > 0 /\ hist["R"][b][2] > 0

\* the rows of a node that have a cell for feature f
RowsWithFeature(slot, f) ==
  {x \in NodeRows(slot) \X {f} : gmat[x[1] + 1][f + 1] # Missing}

\* the bins of feature f
BinsOf(f) == Ptrs[f + 1] .. (Ptrs[f + 2] - 1)

\* C10 as stated: the sum over all bins of a built histogram is the sum of
\* the gradient pairs of the node's rows
C10_SumOverAllBins ==
  \A slot \in Built :
    BuildDone(slot) =>
      SumBins(hist[slot], 0 .. (NBins - 1)) = SumCells(NodeRows(slot) \X {0})

\* C10, amended: for every feature, the sum over the bins of the feature of
\* a built histogram is the sum of the gradient pairs of the node's rows that
\* have a cell for the feature: all the node's rows when the matrix is dense
C10_SumOverBinsOfFeature ==
  \A slot \in Built, f \in Features :
    BuildDone(slot) =>
      SumBins(hist[slot], BinsOf(f)) = SumCells(RowsWithFeature(slot, f))

\* a dense parent is built: every row is counted once per feature
C10_Witness ==
  /\ h_dense
  /\ BuildDone("P")
  /\ \A f \in Features :
       SumBins(hist["P"], BinsOf(f)) = SumCells(NodeRows("P") \X {0})
  /\ SumBins(hist["P"], 0 .. (NBins - 1)) # SumCells(NodeRows("P") \X {0})

(***************************************************************************)
(* FindSplitConditions as a function of the tree: SpecFind draws the split *)
(* descriptors of one call and applies it.                                  *)
(***************************************************************************)
\* split values below, at and above the cut values of a feature
FindSplitPts == 0 .. 3

FindSplitChoices ==
  [fidx : Features, split_pt : FindSplitPts, default_left : {FALSE}]

\* the node sets of a call on a fresh tree and on a tree whose root is split
FindNodeSets == {<<0>>, <<1, 2>>}

FindInit ==
  \E ns \in FindNodeSets :
    \E sp \in [{ns[i] : i \in 1 .. Len(ns)} -> FindSplitChoices] :
      LET t0 == IF ns = <<0>> THEN <<LeafNode>>
                ELSE ExpandNode(<<LeafNode>>, 0,
                                [fidx |-> 0, split_pt |-> 1,
                                 default_left |-> FALSE])
      IN /\ HistIdle
         /\ is_col_split = FALSE
         /\ base_rowid = [w \in Workers |-> 0]
         /\ row_indices = [w \in Workers |-> ResetRowIndices(NumRow, 0)]
         /\ elems = [w \in Workers |-> RowSetInit(NumRow)]
         /\ gmat = MatrixOf(0)
         /\ gmat_base_rowid = 0
         /\ allreduce_log = <<>>
         /\ tree = ExpandAll(t0, ns, sp)
         /\ nodes = ns
         /\ pc = [w \in Workers |-> "idle"]
         /\ split_conditions = <<>>
         /\ space = <<>>
         /\ nodes_offsets = <<0>>
         /\ mem_blocks = [w \in Workers |-> <<>>]
         /\ left_right_nodes_sizes = [w \in Workers |-> <<>>]
         /\ next_task = [w \in Workers |-> [tid \in Threads |-> 0]]
         /\ decision_storage = [w \in Workers |-> <<>>]
         /\ missing_storage = [w \in Workers |-> <<>>]
         /\ tloc_decision = [w \in Workers |-> <<>>]
         /\ tloc_missing = [w \in Workers |-> <<>>]
         /\ local_decision = [w \in Workers |-> <<>>]
         /\ local_missing = [w \in Workers |-> <<>>]
         /\ pre_row_indices = [w \in Workers |-> <<>>]
         /\ pre_elems = [w \in Workers |-> <<>>]

\* FindSplitConditions(nodes, tree, gmat, &split_conditions) of the call
FindSplitConditionsStep ==
  /\ split_conditions = <<>>
  /\ FindSplitConditionsOk(nodes, tree)
  /\ split_conditions' = FindSplitConditions(nodes, tree)
  /\ UNCHANGED <<histVars, is_col_split, base_rowid, row_indices, elems, gmat, gmat_base_rowid, allreduce_log,
                 tree, nodes, pc, space, nodes_offsets, mem_blocks,
                 left_right_nodes_sizes, next_task, decision_storage,
                 missing_storage, tloc_decision, tloc_missing, local_decision,
                 local_missing, pre_row_indices, pre_elems>>

NextFind == FindSplitConditionsStep

SpecFind == FindInit /\ [][NextFind]_vars

\* the cut indices of feature f whose cut value equals v
MatchingCuts(f, v) ==
  {b \in Ptrs[f + 1] .. (Ptrs[f + 2] - 1) : Values[b + 1] = v}

SetMax(S) == CHOOSE x \in S : \A y \in S : y <= x

ExpectedSplitCondition(f, v) ==
  IF MatchingCuts(f, v) = {} THEN -1 ELSE SetMax(MatchingCuts(f, v))

\* C11: once FindSplitConditions has run, split_conditions[i] is the largest
\* cut index inside the interval of node i's split feature whose cut value
\* equals node i's split value, and -1 when the interval holds no such cut;
\* the entry is a function of node i alone
C11_SplitConditionIsLastEqualCut ==
  split_conditions # <<>> =>
    /\ Len(split_conditions) = Len(nodes)
    /\ \A i \in 1 .. Len(nodes) :
         split_conditions[i] =
           ExpectedSplitCondition(SplitIndex(tree, nodes[i]),
                                  SplitCond(tree, nodes[i]))

\* a call of two nodes: one without an equal cut, the other with the equal
\* cut at the last index of its feature's interval
C11_Witness ==
  /\ Len(split_conditions) = 2
  /\ split_conditions[1] = -1
  /\ split_conditions[2] = Ptrs[SplitIndex(tree, nodes[2]) + 2] - 1
  /\ SplitIndex(tree, nodes[1]) = SplitIndex(tree, nodes[2])

(***************************************************************************)
(* Properties of the placement of single rows.                             *)
(***************************************************************************)
\* the rows node n (of the running call) had when the call started
ParentRows(w, n) == Elements(RowsOf(pre_row_indices[w], pre_elems[w][n]))

\* the rows in the range of the left and of the right child of node n
LeftRows(w, n) == Elements(RowsOf(row_indices[w], elems[w][LeftChild(tree, n)]))
RightRows(w, n) ==
  Elements(RowsOf(row_indices[w], elems[w][RightChild(tree, n)]))

\* the rows of node n whose split-feature cell is empty
MissingRows(w, n) ==
  {r \in ParentRows(w, n) : GlobalBin(w, r, SplitIndex(tree, n)) = Missing}

\* C12: when the split condition of a node is -1, UpdatePosition places
\* every row of the node whose split-feature value is not missing in the
\* range of the right child.
C12_NoEqualCutSendsValuesRight ==
  \A w \in ActiveWorkers :
    pc[w] = "done" =>
      \A i \in 1 .. Len(nodes) :
        split_conditions[i] = -1 =>
          /\ ParentRows(w, nodes[i]) \ MissingRows(w, nodes[i])
               \subseteq RightRows(w, nodes[i])
          /\ LeftRows(w, nodes[i]) \subseteq MissingRows(w, nodes[i])

\* a call has split a node without an equal cut: rows with a value of the
\* lowest bin went right while a missing row went left by default
C12_Witness ==
  /\ pc[0] = "done"
  /\ \E i \in 1 .. Len(nodes) :
       /\ split_conditions[i] = -1
       /\ LeftRows(0, nodes[i]) # {}
       /\ \E r \in RightRows(0, nodes[i]) :
            GlobalBin(0, r, SplitIndex(tree, nodes[i]))
              = Ptrs[SplitIndex(tree, nodes[i]) + 1]

\* C13: a row whose split-feature value is missing is placed in the child
\* of the node's default direction, whatever the split condition; in the
\* column-split path a row is missing when every worker reports it missing,
\* and a node whose rows are all missing ends with all of them in the
\* default-direction child and the other child empty.
C13_MissingFollowsDefault ==
  \A w \in ActiveWorkers :
    pc[w] = "done" =>
      \A i \in 1 .. Len(nodes) :
        LET n == nodes[i]
            dflt == IF DefaultLeft(tree, n) THEN LeftRows(w, n)
                    ELSE RightRows(w, n)
            other == IF DefaultLeft(tree, n) THEN RightRows(w, n)
                     ELSE LeftRows(w, n)
        IN /\ MissingRows(w, n) \subseteq dflt
           /\ MissingRows(w, n) \cap other = {}
           /\ is_col_split =>
                \A r \in ParentRows(w, n) :
                  (r \in MissingRows(w, n)) <=>
                    CheckBit(missing_storage[w], r - base_rowid[w])
           /\ (MissingRows(w, n) = ParentRows(w, n)) =>
                /\ dflt = ParentRows(w, n)
                /\ other = {}
                /\ ElemSize(elems[w][IF DefaultLeft(tree, n)
                                     THEN RightChild(tree, n)
                                     ELSE LeftChild(tree, n)]) = 0

\* a column-split call has split a node all of whose rows are missing, and
\* the rows went left by default while the split condition is an equal cut
C13_Witness ==
  /\ is_col_split
  /\ \A w \in Workers : pc[w] = "done"
  /\ \E i \in 1 .. Len(nodes) :
       /\ ParentRows(0, nodes[i]) # {}
       /\ MissingRows(0, nodes[i]) = ParentRows(0, nodes[i])
       /\ DefaultLeft(tree, nodes[i])
       /\ split_conditions[i] >= 0
       /\ LeftRows(1, nodes[i]) = ParentRows(1, nodes[i])

(***************************************************************************)
(* The row buffer during a call.                                           *)
(***************************************************************************)
\* the steps of UpdatePosition in front of AddSplitsToRowSet
BeforeAddSplit ==
  {"mask", "allreduce_decision", "allreduce_missing", "partition",
   "partition_by_mask", "merge"}

\* the steps in front of the first MergeToArray of the merge region
BeforeMerge(w) ==
  \/ pc[w] \in {"mask", "allreduce_decision", "allreduce_missing",
                "partition", "partition_by_mask"}
  \/ pc[w] = "merge" /\ next_task[w] = StartOfRegion(Len(space))

\* C14 as stated: no element of the row buffer changes before
\* AddSplitsToRowSet is reached.
C14_BufferUnchangedUntilAddSplit ==
  \A w \in ActiveWorkers :
    pc[w] \in BeforeAddSplit => row_indices[w] = pre_row_indices[w]

\* C14: no element of the row buffer changes before the first MergeToArray
\* task of step 4 runs, so a call that fails in the checks, in the scratch
\* allocation of a partition task or before the merge leaves the row buffer
\* as it was when the call started; the node ranges are as they were, too.
C14_BufferUnchangedUntilMerge ==
  \A w \in ActiveWorkers :
    (BeforeMerge(w) \/ pc[w] = "abort") =>
      /\ row_indices[w] = pre_row_indices[w]
      /\ elems[w] = pre_elems[w]

\* a second call has failed while some of its partition tasks had filled
\* their scratch with rows in another order than the buffer's
C14_Witness ==
  /\ pc[0] = "abort"
  /\ Len(tree) >= 5
  /\ row_indices[0] # Iota(NumRow, base_rowid[0])
  /\ \E k \in 1 .. Len(mem_blocks[0]) :
       /\ mem_blocks[0][k].n_left > 0
       /\ mem_blocks[0][k].n_right > 0

(***************************************************************************)
(* The memory the tasks of the parallel regions write.                     *)
(***************************************************************************)
\* the scratch (task id) of the task at index k (1-based) of the space
TaskIdOf(k) == GetTaskIdx(nodes_offsets, space[k].node_in_set, space[k].begin)

\* the buffer positions the merge task at index k copies its left and its
\* right sub-block to
LeftDest(w, k) ==
  LET b == mem_blocks[w][TaskIdOf(k) + 1]
      base == elems[w][nodes[space[k].node_in_set + 1]].begin
  IN {base + b.n_offset_left + j : j \in 0 .. (b.n_left - 1)}

RightDest(w, k) ==
  LET b == mem_blocks[w][TaskIdOf(k) + 1]
      base == elems[w][nodes[space[k].node_in_set + 1]].begin
  IN {base + b.n_offset_right + j : j \in 0 .. (b.n_right - 1)}

MergeDest(w, k) == LeftDest(w, k) \cup RightDest(w, k)

\* the buffer positions of the range of the node of task k
NodeRangeOfTask(w, k) ==
  LET e == elems[w][nodes[space[k].node_in_set + 1]]
  IN e.begin .. (e.end - 1)

\* the scratch of every task is its own, and the merge destinations are
\* pairwise disjoint and inside the node's range
DisjointWriteSets ==
  \A w \in ActiveWorkers :
    /\ pc[w] \in {"partition", "partition_by_mask", "merge"} =>
         /\ Len(mem_blocks[w]) = Len(space)
         /\ \A k \in 1 .. Len(space) :
              TaskIdOf(k) \in 0 .. (Len(mem_blocks[w]) - 1)
         /\ \A k1 \in 1 .. Len(space), k2 \in 1 .. Len(space) :
              k1 # k2 => TaskIdOf(k1) # TaskIdOf(k2)
    /\ pc[w] = "merge" =>
         /\ \A k \in 1 .. Len(space) :
              /\ LeftDest(w, k) \cap RightDest(w, k) = {}
              /\ MergeDest(w, k) \subseteq NodeRangeOfTask(w, k)
         /\ \A k1 \in 1 .. Len(space), k2 \in 1 .. Len(space) :
              k1 # k2 => MergeDest(w, k1) \cap MergeDest(w, k2) = {}

\* a step of a task: a partition task leaves the row buffer and every
\* scratch but its own as they are, a merge task changes the row buffer
\* inside its destinations only and leaves the scratch as it is
TaskWritesItsOwn ==
  \A w \in ActiveWorkers, tid \in Threads :
    (pc'[w] = pc[w] /\ next_task'[w][tid] = next_task[w][tid] + 1) =>
      LET k == next_task[w][tid] + 1
      IN /\ pc[w] \in {"partition", "partition_by_mask"} =>
              /\ row_indices'[w] = row_indices[w]
              /\ \A t \in 1 .. Len(mem_blocks[w]) :
                   t # TaskIdOf(k) + 1 =>
                     mem_blocks'[w][t] = mem_blocks[w][t]
         /\ pc[w] = "merge" =>
              /\ mem_blocks'[w] = mem_blocks[w]
              /\ \A p \in 0 .. (NumRow - 1) :
                   p \notin MergeDest(w, k) =>
                     row_indices'[w][p + 1] = row_indices[w][p + 1]

\* C15: in the partition phase every (node, block) task writes only the
\* scratch of its task id, which no other task has, and never the row
\* buffer; in the merge phase the destinations of distinct tasks are
\* pairwise disjoint and inside the task's node range, and a merge task
\* writes nothing else: no two tasks write the same cell.
C15_TasksWriteDisjointCells ==
  []DisjointWriteSets /\ [][TaskWritesItsOwn]_vars

\* the merge of a call on two nodes, three tasks, is under way: both
\* threads have copied a task, one of them a task with rows on both sides
C15_Witness ==
  /\ pc[0] = "merge"
  /\ Len(nodes) = 2
  /\ Len(space) = 3
  /\ \A tid \in Threads : next_task[0][tid] > ThreadBegin(tid, Len(space))
  /\ \E k \in 1 .. Len(space) :
       LeftDest(0, k) # {} /\ RightDest(0, k) # {}
  /\ row_indices[0] # pre_row_indices[0]

(***************************************************************************)
(* The order of the phases of a call.                                      *)
(***************************************************************************)
\* the scratch of the task at index k holds every row of its block
TaskPartitioned(w, k) ==
  LET b == mem_blocks[w][TaskIdOf(k) + 1]
  IN b.n_left + b.n_right = space[k].end - space[k].begin

\* the two sub-blocks of the task at index k are at their destinations
TaskMerged(w, k) ==
  LET b == mem_blocks[w][TaskIdOf(k) + 1]
      base == pre_elems[w][nodes[space[k].node_in_set + 1]].begin
  IN /\ Slice(row_indices[w], base + b.n_offset_left,
              base + b.n_offset_left + b.n_left) = b.left
     /\ Slice(row_indices[w], base + b.n_offset_right,
              base + b.n_offset_right + b.n_right) = b.right

\* every MaskRows task of worker v has run and the replicas are reduced:
\* the worker's own bits of every row of the call are in place
MaskedAndReduced(v) ==
  \A i \in 1 .. Len(nodes) :
    \A r \in ParentRows(v, nodes[i]) :
      LET bin == LocalBin(v, r, SplitIndex(tree, nodes[i]))
      IN /\ CheckBit(local_missing[v], r - base_rowid[v]) <=> bin = Missing
         /\ CheckBit(local_decision[v], r - base_rowid[v])
              <=> (bin # Missing /\ bin > split_conditions[i])

\* what has finished when a worker is in a phase
PhaseState ==
  \A w \in ActiveWorkers :
    /\ pc[w] = "merge" =>
         /\ \A k \in 1 .. Len(space) : TaskPartitioned(w, k)
         /\ mem_blocks[w] = CalculateRowOffsets(mem_blocks[w], nodes_offsets)
         /\ left_right_nodes_sizes[w] = NodesSizes(mem_blocks[w], nodes_offsets)
    /\ pc[w] = "done" => \A k \in 1 .. Len(space) : TaskMerged(w, k)
    /\ (is_col_split /\ pc[w] = "partition_by_mask") =>
         /\ \A v \in Workers :
              /\ pc[v] \notin {"idle", "mask", "allreduce_decision",
                               "allreduce_missing"}
              /\ MaskedAndReduced(v)
         /\ decision_storage[w] = AllreduceOr(local_decision)
         /\ missing_storage[w] = AllreduceAnd(local_missing)

\* a phase is entered only after the join of the phase in front of it
PhaseStep ==
  \A w \in ActiveWorkers :
    /\ (pc[w] = "mask" /\ pc'[w] # "mask") =>
         RegionDone(next_task[w], Len(space))
    /\ (pc[w] # "partition_by_mask" /\ pc'[w] = "partition_by_mask") =>
         \A v \in Workers : pc[v] = "allreduce_missing"
    /\ (pc[w] # "allreduce_missing" /\ pc'[w] = "allreduce_missing") =>
         \A v \in Workers : pc[v] = "allreduce_decision"
    /\ (pc[w] # "merge" /\ pc'[w] = "merge") =>
         /\ pc[w] \in {"partition", "partition_by_mask"}
         /\ RegionDone(next_task[w], Len(space))
    /\ (pc[w] = "merge" /\ row_indices'[w] # row_indices[w]) =>
         pc'[w] = "merge"
    /\ (pc[w] # "idle" /\ elems'[w] # elems[w]) =>
         /\ pc[w] = "merge"
         /\ RegionDone(next_task[w], Len(space))
         /\ \A k \in 1 .. Len(space) : TaskMerged(w, k)

\* C16: the phases of UpdatePosition are barriered: the offsets and the
\* merge start only after every partition task has finished, a merge task
\* only after CalculateRowOffsets, AddSplit only after every merge task; in
\* the column-split path PartitionByMask starts only after every MaskRows
\* task, the thread-local reduction and both all-reduces, on every worker.
C16_PhasesAreBarriered ==
  []PhaseState /\ [][PhaseStep]_vars

\* a column-split call: worker 0 is still partitioning by the aggregated
\* bits while worker 1 is already merging
C16_Witness ==
  /\ is_col_split
  /\ pc[0] = "partition_by_mask"
  /\ pc[1] = "merge"
  /\ Len(space) >= 2
  /\ \E tid \in Threads : next_task[0][tid] > ThreadBegin(tid, Len(space))
  /\ row_indices[1] # pre_row_indices[1]

(***************************************************************************)
(* The command groups of a build and their events.                         *)
(***************************************************************************)
\* the command groups BuildHist has submitted for a histogram
StepsOf(slot) ==
  {c \in DOMAIN cmds : cmds[c].slot = slot /\ cmds[c].kind # "subtract"}

FirstStep(slot) == CHOOSE c \in StepsOf(slot) : \A d \in StepsOf(slot) : c <= d
LastStep(slot) == CHOOSE c \in StepsOf(slot) : \A d \in StepsOf(slot) : d <= c

\* what a command group is in the chain
StepKind(kind) ==
  IF kind \in {"fill_buffer", "fill_hist"} THEN "fill"
  ELSE IF kind \in {"main_buffered", "main_local", "main_atomic"} THEN "main"
  ELSE kind

\* the chain of a histogram, step by step
ChainKinds(slot) ==
  [i \in 1 .. Cardinality(StepsOf(slot)) |->
     StepKind(cmds[FirstStep(slot) + i - 1].kind)]

\* the event the caller hands to its p-th BuildHist: the one its previous
\* BuildHist returned, a default event for the first
IncomingToken(p) == IF p = 1 THEN 0 ELSE LastStep(h_prog[p - 1])

\* the steps of the p-th build are chained from the incoming token on, the
\* returned token is the last step's, and no step has started before the
\* step in front of it was complete
Chained(p) ==
  LET slot == h_prog[p]
  IN /\ StepsOf(slot) = FirstStep(slot) .. LastStep(slot)
     /\ cmds[FirstStep(slot)].dep = IncomingToken(p)
     /\ \A c \in StepsOf(slot) \ {FirstStep(slot)} : cmds[c].dep = c - 1
     /\ p = host_pc - 1 => last_token = LastStep(slot)
     /\ \A c \in StepsOf(slot) :
          cmds[c].st # "submitted" => EventComplete(cmds[c].dep)

\* C17 as stated: the chain is fill, main-build, reduce for the buffered
\* kernel and the kernel with local histograms, fill, main-build for the
\* atomic kernel.
C17_ChainFillMainReduce ==
  \A p \in 1 .. Len(h_prog) :
    p < host_pc =>
      /\ ChainKinds(h_prog[p]) =
           IF Variant \in {"buffered", "local"}
           THEN <<"fill", "main", "reduce">> ELSE <<"fill", "main">>
      /\ Chained(p)

\* C17: the device build submits fill, main-build, reduce for the buffered
\* kernel, main-build, reduce (no fill) for the kernel with local
\* histograms and fill, main-build for the atomic kernel; the first step
\* depends on the caller's incoming token, each later step on the step in
\* front of it, and BuildHist returns the token of the last step.
C17_ChainPerVariant ==
  \A p \in 1 .. Len(h_prog) :
    p < host_pc =>
      /\ ChainKinds(h_prog[p]) =
           IF Variant = "buffered" THEN <<"fill", "main", "reduce">>
           ELSE IF Variant = "local" THEN <<"main", "reduce">>
           ELSE <<"fill", "main">>
      /\ Chained(p)

\* two builds with local histograms are chained, the first is complete and
\* the main step of the second has started
C17_Witness ==
  /\ Variant = "local"
  /\ host_pc > Len(h_prog)
  /\ BuildDone(h_prog[1])
  /\ cmds[FirstStep(h_prog[2])].dep = LastStep(h_prog[1])
  /\ cmds[FirstStep(h_prog[2])].kind = "main_local"
  /\ cmds[FirstStep(h_prog[2])].st = "running"

(***************************************************************************)
(* The operations of the histogram store on the device: InitHist,          *)
(* CopyHist, SubtractionHist and SubtractionTrick.  The caller runs a      *)
(* program of three of them on the histograms self ("S"), parent ("P"),    *)
(* sibling ("L") and a copy ("R"); it hands the event it holds to every    *)
(* operation that takes one and waits for it before an operation that      *)
(* takes none.  The queue runs a command group as soon as the event it     *)
(* depends on is complete, while the caller goes on.                       *)
(***************************************************************************)
StoreOps == {"init", "copy", "sub", "S"}

StorePrograms ==
  {<<a, b, c>> : a \in StoreOps, b \in StoreOps \ {"copy"}, c \in {"copy"}}
  \cup {<<"copy", a, b>> : a \in {"init", "sub"}, b \in {"sub", "S"}}

\* grad sums the parent and the sibling start with
StoreValues == {4, 6}

StoreInit ==
  /\ PartIdle
  /\ h_dense = TRUE
  /\ h_rid = Iota(NumRow, 0)
  /\ h_cfg = [work_group_size |-> 1, block_size |-> 2, use_atomics |-> FALSE,
              use_local_hist |-> FALSE, force_atomic_use |-> FALSE]
  /\ h_split = 1
  /\ gmat = DenseMatrixOf(0)
  /\ h_prog \in StorePrograms
  /\ \E pv \in StoreValues :
       hist = [s \in Slots |->
                 [b \in 1 .. NBins |->
                    IF s = "P" THEN <<pv + b, 3>>
                    ELSE IF s = "L" THEN <<b, 1>> ELSE PriorPair]]
  /\ hist_buffer = [k \in 1 .. (MaxNBlocks * NBins) |-> PriorPair]
  /\ cmds = <<>>
  /\ lanes = <<>>
  /\ host_pc = 1
  /\ last_token = 0
  /\ sub_after_builds = FALSE

\* InitHist(qu, hist, size, event): *event = qu->fill(..., size, *event)
InitHist ==
  /\ host_pc <= Len(h_prog)
  /\ h_prog[host_pc] = "init"
  /\ cmds' = Append(cmds, Cmd("fill_hist", "S", last_token))
  /\ last_token' = Len(cmds) + 1
  /\ host_pc' = host_pc + 1
  /\ UNCHANGED <<partVars, histInputs, hist, hist_buffer, lanes,
                 sub_after_builds>>

\* the caller of SubtractionHist(qu, self, parent, sibling, size, event_priv)
\* keeps the event it returns
SubtractionHistCall ==
  /\ host_pc <= Len(h_prog)
  /\ h_prog[host_pc] = "sub"
  /\ cmds' = Append(cmds, SubtractionHistCmd("S", last_token))
  /\ last_token' = Len(cmds) + 1
  /\ host_pc' = host_pc + 1
  /\ UNCHANGED <<partVars, histInputs, hist, hist_buffer, lanes,
                 sub_after_builds>>

\* CopyHist(qu, dst, src, size): the command group has no depends_on; the
\* caller has waited for the event it holds
CopyHist ==
  /\ host_pc <= Len(h_prog)
  /\ h_prog[host_pc] = "copy"
  /\ Len(cmds) < host_pc
  /\ EventComplete(last_token)
  /\ cmds' = Append(cmds, Cmd("copy", "R", 0))
  /\ UNCHANGED <<partVars, histInputs, hist, hist_buffer, lanes, host_pc,
                 last_token, sub_after_builds>>

\* .wait() of CopyHist returns: no event is handed to the caller
CopyHistWait ==
  /\ host_pc <= Len(h_prog)
  /\ h_prog[host_pc] = "copy"
  /\ Len(cmds) = host_pc
  /\ cmds[host_pc].st = "complete"
  /\ host_pc' = host_pc + 1
  /\ UNCHANGED <<partVars, histInputs, hist, hist_buffer, lanes, cmds,
                 last_token, sub_after_builds>>

\* the queue: a submitted command group may run when its event is complete
StoreReady(c) ==
  /\ cmds[c].st = "submitted"
  /\ EventComplete(cmds[c].dep)

\* the fill of InitHist
StoreFill(c) ==
  /\ StoreReady(c)
  /\ cmds[c].kind = "fill_hist"
  /\ hist' = [hist EXCEPT ![cmds[c].slot] = FillHist(@)]
  /\ cmds' = SetSt(c, "complete")
  /\ UNCHANGED <<partVars, histInputs, hist_buffer, lanes, host_pc,
                 last_token, sub_after_builds>>

\* the kernel of SubtractionHist
StoreSubtraction(c) ==
  /\ StoreReady(c)
  /\ cmds[c].kind = "subtract"
  /\ hist' = [hist EXCEPT
                ![cmds[c].slot] = SubtractionHist(hist["P"], hist["L"])]
  /\ cmds' = SetSt(c, "complete")
  /\ UNCHANGED <<partVars, histInputs, hist_buffer, lanes, host_pc,
                 last_token, sub_after_builds>>

\* the kernel of CopyHist: pdst[i] = psrc[i]
StoreCopy(c) ==
  /\ StoreReady(c)
  /\ cmds[c].kind = "copy"
  /\ hist' = [hist EXCEPT ![cmds[c].slot] = hist["S"]]
  /\ cmds' = SetSt(c, "complete")
  /\ UNCHANGED <<partVars, histInputs, hist_buffer, lanes, host_pc,
                 last_token, sub_after_builds>>

NextStore ==
  \/ InitHist
  \/ SubtractionHistCall
  \/ SubtractionTrick
  \/ CopyHist
  \/ CopyHistWait
  \/ \E c \in DOMAIN cmds : StoreFill(c)
  \/ \E c \in DOMAIN cmds : StoreSubtraction(c)
  \/ \E c \in DOMAIN cmds : StoreCopy(c)

SpecStore == StoreInit /\ [][NextStore]_vars

\* the operations that have returned to the caller; operation p submitted
\* command group p
Returned == 1 .. (host_pc - 1)

\* C18 as stated: every operation of the store hands its caller a token,
\* the event of its command group, and when the token the caller holds is
\* complete the element writes of every operation that has returned are
\* done.
C18_StoreOpsExposeTokens ==
  /\ host_pc > 1 => last_token = host_pc - 1
  /\ EventComplete(last_token) =>
       \A p \in Returned : cmds[p].st = "complete"

\* InitHist and SubtractionHist hand over the event of their command group,
\* which depends on the event the caller passed in
InitAndSubtractionExposeTokens ==
  \A p \in Returned :
    h_prog[p] \in {"init", "sub"} =>
      /\ cmds[p].dep < p
      /\ \A q \in (p + 1) .. Len(cmds) :
           h_prog[q] \in {"init", "sub"} => cmds[q].dep >= p
      /\ h_prog[host_pc - 1] \in {"init", "sub"} => last_token = host_pc - 1

\* SubtractionTrick has returned, the caller has waited for the event it
\* holds and copied self, and the copy is not parent - sibling: the
\* subtraction had not run
C18_Witness ==
  /\ h_prog[1] = "init"
  /\ h_prog[2] = "S"
  /\ host_pc > Len(h_prog)
  /\ cmds[3].kind = "copy"
  /\ cmds[3].st = "complete"
  /\ cmds[2].st = "submitted"
  /\ hist["R"] # SubtractionHist(hist["P"], hist["L"])

(***************************************************************************)
(* BuildHistDispatchKernel as a function of isDense, the dispatcher's      *)
(* flags and force_atomic_use: SpecDispatch draws them all and lets the    *)
(* caller submit its builds.                                               *)
(***************************************************************************)
DispatchConfigs ==
  [work_group_size : 1 .. MaxWorkGroupSize,
   block_size : 2 .. MaxBlockSize,
   use_atomics : BOOLEAN,
   use_local_hist : BOOLEAN,
   force_atomic_use : BOOLEAN]

DispatchInit ==
  /\ h_dense \in BOOLEAN
  /\ h_rid = Iota(NumRow, 0)
  /\ h_cfg \in DispatchConfigs
  /\ HistStart(<<"R", "P">>)

NextDispatch == BuildHist

SpecDispatch == DispatchInit /\ [][NextDispatch]_vars

\* the main kernels submitted for a histogram
MainKinds(slot) ==
  {cmds[c].kind : c \in {d \in StepsOf(slot) : StepKind(cmds[d].kind) = "main"}}

\* the main command groups submitted for a histogram
MainSteps(slot) == {c \in StepsOf(slot) : StepKind(cmds[c].kind) = "main"}

\* C19: the atomic kernel runs iff dispatcher.use_atomics or
\* force_atomic_use is set; otherwise the kernel with local histograms runs
\* iff the input is dense and dispatcher.use_local_hist is set; otherwise
\* the buffered kernel runs; exactly one kernel runs per call, and
\* force_atomic_use overrides use_local_hist.
C19_KernelSelection ==
  \A p \in 1 .. Len(h_prog) :
    p < host_pc =>
      LET slot == h_prog[p]
          atomic == h_cfg.use_atomics \/ h_cfg.force_atomic_use
          local == ~atomic /\ h_dense /\ h_cfg.use_local_hist
      IN /\ Cardinality(MainSteps(slot)) = 1
         /\ ("main_atomic" \in MainKinds(slot)) <=> atomic
         /\ ("main_local" \in MainKinds(slot)) <=> local
         /\ ("main_buffered" \in MainKinds(slot)) <=> (~atomic /\ ~local)
         /\ (h_cfg.force_atomic_use /\ h_cfg.use_local_hist) =>
              MainKinds(slot) = {"main_atomic"}

\* a dense build with use_local_hist and force_atomic_use has been
\* submitted: the atomic kernel was chosen
C19_Witness ==
  /\ h_dense
  /\ h_cfg.use_local_hist
  /\ h_cfg.force_atomic_use
  /\ ~h_cfg.use_atomics
  /\ host_pc > Len(h_prog)
  /\ MainKinds("P") = {"main_atomic"}

(***************************************************************************)
(* The build of one node under several orders of its rows: SpecPermute     *)
(* builds the parent, whose range is the whole buffer.                     *)
(***************************************************************************)
\* the rows in increasing order, in decreasing order, rotated by one, and
\* the even positions in front of the odd ones
PermuteOrders ==
  { Iota(NumRow, 0),
    Reverse(Iota(NumRow, 0)),
    [k \in 1 .. NumRow |-> k % NumRow],
    [k \in 1 .. NumRow |->
       IF k <= (NumRow + 1) \div 2 THEN 2 * (k - 1)
       ELSE 2 * (k - (NumRow + 1) \div 2) - 1] }

PermuteInit ==
  /\ h_dense \in BOOLEAN
  /\ h_rid \in PermuteOrders
  /\ h_cfg \in {c \in Configs : /\ c.work_group_size = MaxWorkGroupSize
                                /\ ~c.force_atomic_use}
  /\ h_split = 1
  /\ HistStart(<<"P">>)

SpecPermute == PermuteInit /\ [][NextBuild]_vars

\* the histogram h after the cells of row id r are added, column by column
RECURSIVE AddRowFrom(_, _, _)
AddRowFrom(h, r, j) ==
  IF j >= NColumns THEN h
  ELSE AddRowFrom(IF IdxBin(r, j) < NBins
                  THEN [h EXCEPT ![IdxBin(r, j) + 1] = PairAdd(@, PghRow(r))]
                  ELSE h,
                  r, j + 1)

\* the histogram of the rows of a sequence, added one after the other
RECURSIVE AddRows(_, _)
AddRows(h, rows) ==
  IF rows = <<>> THEN h ELSE AddRows(AddRowFrom(h, Head(rows), 0), Tail(rows))

\* the rows of the range of a node if the buffer were in another order
RowsUnder(order, slot) ==
  Slice(order, NodeRange(slot).begin, NodeRange(slot).end)

\* C20: whatever the order of the row ids inside the range of the node, and
\* so whatever the blocks the rows fall into, the build gives the same
\* histogram: the one of any other order of the same rows, for the
\* buffered kernel, the kernel with local histograms and the atomic kernel.
C20_RowOrderDoesNotMatter ==
  \A slot \in Built :
    BuildDone(slot) =>
      \A order \in PermuteOrders :
        Elements(RowsUnder(order, slot)) = NodeRows(slot) =>
          hist[slot] =
            AddRows([b \in 1 .. NBins |-> ZeroPair], RowsUnder(order, slot))

\* a sparse parent is built from a buffer that is neither increasing nor
\* decreasing, in two blocks that hold other rows than in increasing order
C20_Witness ==
  /\ ~h_dense
  /\ BuildDone("P")
  /\ h_rid \notin {Iota(NumRow, 0), Reverse(Iota(NumRow, 0))}
  /\ NBlocks("P") >= 2
  /\ Variant = "buffered"
  /\ {Rid("P", i) : i \in 0 .. (BlockSize("P") - 1)}
       # 0 .. (BlockSize("P") - 1)

(***************************************************************************)
(* The CPU histogram builder in its two read orders: SpecCpu builds the    *)
(* histograms of the left child, the parent and the right child with      *)
(* force_read_by_column drawn once for the run.                            *)
(***************************************************************************)
\* the cells (position i of the node's range, column f) in row-major order:
\* rows outside, columns inside
RowMajorCells(slot) ==
  [n \in 1 .. (Size(slot) * NColumns) |->
     <<(n - 1) \div NColumns, (n - 1) % NColumns>>]

\* a column-major sweep that leaves out the last row of the node
ColumnMajorCells_SkipsLastRow(slot) ==
  [n \in 1 .. ((Size(slot) - 1) * NColumns) |->
     <<(n - 1) % (Size(slot) - 1), (n - 1) \div (Size(slot) - 1)>>]

\* the cells in column-major order: columns outside, rows inside
ColumnMajorCells(slot) ==
  [n \in 1 .. (Size(slot) * NColumns) |->
     <<(n - 1) % Size(slot), (n - 1) \div Size(slot)>>]

\* the order force_read_by_column selects
CpuReadOrder(slot, force_read_by_column) ==
  IF force_read_by_column THEN ColumnMajorCells(slot) ELSE RowMajorCells(slot)

\* thread t sweeps the cells in the given order: for a cell of a row assigned
\* to it, k is the stored index, plus offsets[f] in dense form; if k < B the
\* pair of the row is added to private[t][k]
RECURSIVE CpuAccumulate(_, _, _, _)
CpuAccumulate(slot, t, cells, private) ==
  IF cells = <<>> THEN private
  ELSE LET i == cells[1][1]
           f == cells[1][2]
           r == Rid(slot, i)
           k == GradientIndex(r, f) + (IF h_dense THEN Ptrs[f + 1] ELSE 0)
       IN  CpuAccumulate(slot, t, Tail(cells),
             IF i % NumThreads = t /\ k < NBins
             THEN [private EXCEPT ![k + 1] = PairAdd(@, Pgh(r))]
             ELSE private)

\* BuildHist(gpair, row_indices, gmat, hist, force_read_by_column): private
\* histograms from zero, one sweep per thread, then the sum over the threads
CpuBuildHistRead(slot, force_read_by_column) ==
  [b \in 1 .. NBins |->
     SumPairs([t \in 1 .. NumThreads |->
       CpuAccumulate(slot, t - 1, CpuReadOrder(slot, force_read_by_column),
                     [x \in 1 .. NBins |-> ZeroPair])[b]])]

CpuInit ==
  /\ h_dense \in BOOLEAN
  /\ h_rid \in PermuteOrders
  /\ h_cfg \in [force_read_by_column : BOOLEAN]
  /\ HistStart(<<"L", "P", "R">>)

\* the caller builds its next histogram on the CPU
CpuBuildHistCall ==
  /\ host_pc <= Len(h_prog)
  /\ hist' = [hist EXCEPT ![h_prog[host_pc]] =
                CpuBuildHistRead(h_prog[host_pc], h_cfg.force_read_by_column)]
  /\ host_pc' = host_pc + 1
  /\ UNCHANGED <<partVars, histInputs, hist_buffer, cmds, lanes,
                 last_token, sub_after_builds>>

NextCpu == CpuBuildHistCall

SpecCpu == CpuInit /\ [][NextCpu]_vars

\* the histograms the CPU caller has built so far
CpuBuilt == {h_prog[k] : k \in 1 .. (host_pc - 1)}

\* C21: for the same matrix, rows and gradient pairs, the CPU build that
\* reads by column gives, element by element, the histogram of the build
\* that reads by row
C21_ReadOrdersAgree ==
  \A slot \in CpuBuilt :
    /\ hist[slot] = CpuBuildHistRead(slot, FALSE)
    /\ hist[slot] = CpuBuildHistRead(slot, TRUE)

\* a sparse parent has been built by column, rows not in increasing order,
\* a bin of it holding more than one row and a cell of it missing
C21_Witness ==
  /\ h_cfg.force_read_by_column
  /\ ~h_dense
  /\ h_rid # Iota(NumRow, 0)
  /\ "P" \in CpuBuilt
  /\ \E b \in 1 .. NBins : hist["P"][b][2] >= 2
  /\ \E r \in NodeRows("P"), f \in Features : gmat[r + 1][f + 1] = Missing

(***************************************************************************)
(* A node without rows: SpecEmpty runs the partitioner and, once a call    *)
(* that split an empty node at an end of the buffer is done, lets the      *)
(* caller build the histogram of that node on the device (sparse form);    *)
(* it also starts a caller that builds the histogram of an empty left      *)
(* child of a dense matrix.                                                *)
(***************************************************************************)
\* the nodes (1-based index in the set) of the running call without rows
EmptyNodes(w) ==
  {i \in 1 .. Len(nodes) : ElemSize(pre_elems[w][nodes[i]]) = 0}

\* the slot whose range is the empty range at position p of the buffer
EmptySlot(p) == IF p = 0 THEN "L" ELSE "R"

\* the caller hands the empty range of a node just split to BuildHist
BuildHistOfEmptyNode ==
  /\ host_pc = 0
  /\ pc[0] = "done"
  /\ \E i \in EmptyNodes(0), c \in Configs :
       LET p == pre_elems[0][nodes[i]].begin
       IN  /\ p \in {0, NumRow}
           /\ h_split' = p
           /\ h_prog' = <<EmptySlot(p)>>
           /\ h_cfg' = c
  /\ h_dense' = FALSE
  /\ h_rid' = [k \in 1 .. NumRow |-> row_indices[0][k] - base_rowid[0]]
  /\ hist' = [s \in Slots |-> [b \in 1 .. NBins |-> PriorPair]]
  /\ hist_buffer' = [k \in 1 .. (MaxNBlocks * NBins) |-> PriorPair]
  /\ host_pc' = 1
  /\ UNCHANGED <<partVars, cmds, lanes, last_token, sub_after_builds>>

\* a caller about to build the histogram of the empty left child of a dense
\* matrix
EmptyDenseInit ==
  /\ PartIdle
  /\ h_dense = TRUE
  /\ h_rid = Iota(NumRow, 0)
  /\ h_split = 0
  /\ h_cfg \in Configs
  /\ h_prog = <<"L">>
  /\ gmat = DenseMatrixOf(0)
  /\ hist = [s \in Slots |-> [b \in 1 .. NBins |-> PriorPair]]
  /\ hist_buffer = [k \in 1 .. (MaxNBlocks * NBins) |-> PriorPair]
  /\ cmds = <<>>
  /\ lanes = <<>>
  /\ host_pc = 1
  /\ last_token = 0
  /\ sub_after_builds = FALSE

EmptyInit == Init \/ EmptyDenseInit

\* the partitioner, then the build of the empty node: its kernels have no
\* work-item
NextEmpty ==
  \/ host_pc = 0 /\ Next
  \/ BuildHistOfEmptyNode
  \/ host_pc >= 1 /\ BuildHist
  \/ \E c \in DOMAIN cmds : Fill(c)
  \/ \E c \in DOMAIN cmds : StartMain(c)
  \/ \E c \in DOMAIN cmds : FinishMain(c)
  \/ \E c \in DOMAIN cmds : ReduceHist(c)

SpecEmpty == EmptyInit /\ [][NextEmpty]_vars

\* a histogram of zero pairs
ZeroHist == [b \in 1 .. NBins |-> ZeroPair]

\* C22: the device build of a node whose row range is empty leaves the
\* all-zero histogram; UpdatePosition gives such a node no task, reports
\* n_left = n_right = 0 for it and attaches two empty ranges, at the node's
\* place in the buffer, to its children; a call on empty nodes alone leaves
\* the row buffer as it was
C22_EmptyNodeIsNoOp ==
  /\ \A slot \in Built :
       (Size(slot) = 0 /\ BuildDone(slot)) => hist[slot] = ZeroHist
  /\ \A w \in ActiveWorkers :
       pc[w] # "idle" =>
         /\ \A i \in EmptyNodes(w) :
              /\ NTasks(ElemSize(pre_elems[w][nodes[i]])) = 0
              /\ nodes_offsets[i] = nodes_offsets[i + 1]
              /\ \A k \in 1 .. Len(space) : space[k].node_in_set # i - 1
              /\ pc[w] \in {"merge", "done"} =>
                   left_right_nodes_sizes[w][i] = [n_left |-> 0, n_right |-> 0]
              /\ pc[w] = "done" =>
                   \A child \in {LeftChild(tree, nodes[i]),
                                 RightChild(tree, nodes[i])} :
                     /\ elems[w][child].node_id = child
                     /\ elems[w][child].begin = pre_elems[w][nodes[i]].begin
                     /\ elems[w][child].end = pre_elems[w][nodes[i]].begin
         /\ EmptyNodes(w) = 1 .. Len(nodes) =>
              /\ space = <<>>
              /\ row_indices[w] = pre_row_indices[w]

\* a call on an empty node alone is done, the rows being in another order
\* than Reset left them, and the histogram of the node has been built with
\* the buffered kernel
C22_Witness ==
  /\ host_pc > 1
  /\ pc[0] = "done"
  /\ Len(nodes) = 1
  /\ EmptyNodes(0) = {1}
  /\ row_indices[0] # Iota(NumRow, base_rowid[0])
  /\ Size(h_prog[1]) = 0
  /\ BuildDone(h_prog[1])
  /\ Variant = "buffered"
  /\ hist[h_prog[1]] = ZeroHist

(***************************************************************************)
(* A call with a matrix of another base_rowid.                             *)
(***************************************************************************)
\* C23: UpdatePosition called with a binned matrix whose base_rowid is not
\* the partitioner's aborts, and at the abort the row buffer and every node
\* range are what they were before the call
C23_BaseRowidMismatchAborts ==
  \A w \in ActiveWorkers :
    (pc[w] # "idle" /\ gmat_base_rowid # base_rowid[w]) =>
      /\ pc[w] = "abort"
      /\ row_indices[w] = pre_row_indices[w]
      /\ elems[w] = pre_elems[w]

\* the second call of a tree, on rows an earlier call has moved, was handed
\* a matrix of another base_rowid
C23_Witness ==
  /\ pc[0] = "abort"
  /\ gmat_base_rowid # base_rowid[0]
  /\ Len(tree) >= 5
  /\ row_indices[0] # Iota(NumRow, base_rowid[0])
  /\ \E n \in NodeIds : n > 0 /\ elems[0][n].node_id = n

(***************************************************************************)
(* The all-reduces of ColumnSplitHelper::Partition and their failure.      *)
(***************************************************************************)
\* the all-reduces of operation op the running call has invoked so far
InvocationsOf(op) ==
  {k \in 1 .. Len(allreduce_log) : allreduce_log[k].op = op}

\* an all-reduce of the running call has failed
AllreduceFailed ==
  \E k \in 1 .. Len(allreduce_log) : ~allreduce_log[k].ok

\* C24: in ColumnSplitHelper::Partition each all-reduce is invoked at most
\* once per call; the all-reduce of the missing bits is invoked only after
\* the all-reduce of the decision bits has succeeded; and once either has
\* failed every worker has aborted, no task of PartitionByMask has filled
\* its scratch, and the row buffer and the node ranges are what they were
\* before the call
C24_AllreduceFailureStopsTheCall ==
  /\ Cardinality(InvocationsOf("kBitwiseOR")) <= 1
  /\ Cardinality(InvocationsOf("kBitwiseAND")) <= 1
  /\ \A k \in InvocationsOf("kBitwiseAND") :
       \E j \in InvocationsOf("kBitwiseOR") : j < k /\ allreduce_log[j].ok
  /\ AllreduceFailed =>
       \A w \in Workers :
         /\ pc[w] = "abort"
         /\ \A t \in 1 .. Len(mem_blocks[w]) : mem_blocks[w][t] = EmptyBlock
         /\ left_right_nodes_sizes[w] = <<>>
         /\ row_indices[w] = pre_row_indices[w]
         /\ elems[w] = pre_elems[w]

\* the all-reduce of the missing bits has failed after the one of the
\* decision bits succeeded, in the second call of a tree, some worker having
\* set a decision bit
C24_Witness ==
  /\ is_col_split
  /\ Len(allreduce_log) = 2
  /\ allreduce_log[1].ok /\ ~allreduce_log[2].ok
  /\ Len(tree) >= 5
  /\ row_indices[0] # Iota(NumRow, base_rowid[0])
  /\ \E i \in BitsOf(ComputeStorageSize(NumRow)) :
       CheckBit(decision_storage[0], i)

(***************************************************************************)
(* SubtractionTrick on histograms of any sizes: SpecSizes draws the sizes  *)
(* of self ("S"), sibling ("L") and parent ("P") and calls it once.        *)
(***************************************************************************)
\* the sizes tried, B among them
HistSizes == (NBins - 1) .. (NBins + 2)

SizesInit ==
  /\ PartIdle
  /\ h_dense = TRUE
  /\ h_rid = Iota(NumRow, 0)
  /\ h_cfg = [work_group_size |-> 1, block_size |-> 2, use_atomics |-> FALSE,
              use_local_hist |-> FALSE, force_atomic_use |-> FALSE]
  /\ h_split = 1
  /\ gmat = DenseMatrixOf(0)
  /\ h_prog = <<"S">>
  /\ \E size \in [{"S", "L", "P"} -> HistSizes] :
       hist = [s \in Slots |->
                 [b \in 1 .. (IF s = "R" THEN NBins ELSE size[s]) |->
                    IF s = "P" THEN <<4 + b, 3>>
                    ELSE IF s = "L" THEN <<b, 1>> ELSE PriorPair]]
  /\ hist_buffer = [k \in 1 .. (MaxNBlocks * NBins) |-> PriorPair]
  /\ cmds = <<>>
  /\ lanes = <<>>
  /\ host_pc = 1
  /\ last_token = 0
  /\ sub_after_builds = FALSE

NextSizes ==
  \/ SubtractionTrick
  \/ \E c \in DOMAIN cmds : Subtraction(c)

SpecSizes == SizesInit /\ [][NextSizes]_vars

\* the sizes of sibling and parent are the size of self
SizesAgree ==
  /\ Len(hist["L"]) = Len(hist["S"])
  /\ Len(hist["P"]) = Len(hist["S"])

\* C25: SubtractionTrick aborts when the size of sibling or of parent is not
\* the size of self; then no element of self has been written and no
\* subtraction kernel has been submitted
C25_SizeMismatchAborts ==
  /\ (host_pc > 1 /\ ~SizesAgree) =>
       /\ HostAborted
       /\ \A b \in DOMAIN hist["S"] : hist["S"][b] = PriorPair
       /\ \A c \in DOMAIN cmds : cmds[c].kind # "subtract"
  /\ HostAborted => ~SizesAgree

\* the call was made with a sibling shorter than self and a parent of the
\* size of self
C25_Witness ==
  /\ HostAborted
  /\ Len(hist["L"]) < Len(hist["S"])
  /\ Len(hist["P"]) = Len(hist["S"])
  /\ cmds = <<>>

(***************************************************************************)
(* BuildHistKernel's switch on gmat.index.GetBinTypeSize(): SpecWidth      *)
(* draws isDense, the reported size and the dispatcher's flags, and lets   *)
(* the caller make its builds. h_cfg carries the reported size as          *)
(* bin_type_size; a main command group carries the BinIdxType its kernel   *)
(* was instantiated with, in bytes.                                        *)
(***************************************************************************)
kUint8BinsTypeSize == 1
kUint16BinsTypeSize == 2
kUint32BinsTypeSize == 4

BinTypeSizes == {kUint8BinsTypeSize, kUint16BinsTypeSize, kUint32BinsTypeSize}

\* the sizes a matrix may report: the three of the enumeration and one
\* value outside it
ReportedSizes == BinTypeSizes \cup {8}

\* a dispatch that instantiates the reported width for every layout
BinIdxType_AsReported(isDense, bin_type_size) == bin_type_size

\* the index type of the kernel BuildHistDispatchKernel<FPType, BinIdxType>
\* returns: BinIdxType on the dense branches, uint32_t on the others
BinIdxType(isDense, bin_type_size) ==
  IF isDense THEN bin_type_size ELSE kUint32BinsTypeSize

\* the command groups of one build, the main one marked with its index type
TypedKernel(new, bin_idx_type) ==
  [c \in DOMAIN new |->
     IF StepKind(new[c].kind) = "main"
     THEN [kind |-> new[c].kind, slot |-> new[c].slot, dep |-> new[c].dep,
           st |-> new[c].st, bin_idx_type |-> bin_idx_type]
     ELSE new[c]]

\* BuildHistKernel(qu, gpair, row_indices, gmat, isDense, ...): one of the
\* three cases dispatches; the default case is CHECK(false)
BuildHistKernelCall ==
  /\ host_pc >= 1
  /\ host_pc <= Len(h_prog)
  /\ h_prog[host_pc] # "S"
  /\ IF h_cfg.bin_type_size \in BinTypeSizes
     THEN LET slot == h_prog[host_pc]
              new == BuildHistDispatchKernel(slot, last_token,
                                             h_cfg.force_atomic_use, Len(cmds))
              bin_idx_type == BinIdxType(h_dense, h_cfg.bin_type_size)
          IN  /\ cmds' = cmds \o TypedKernel(new, bin_idx_type)
              /\ last_token' = Len(cmds) + Len(new)
              /\ host_pc' = host_pc + 1
     ELSE /\ cmds' = cmds
          /\ last_token' = last_token
          /\ host_pc' = Len(h_prog) + 2
  /\ UNCHANGED <<partVars, histInputs, hist, hist_buffer,
                 lanes, sub_after_builds>>

WidthConfigs ==
  [work_group_size : {MaxWorkGroupSize},
   block_size : {2},
   use_atomics : BOOLEAN,
   use_local_hist : BOOLEAN,
   force_atomic_use : BOOLEAN,
   bin_type_size : ReportedSizes]

WidthInit ==
  /\ h_dense \in BOOLEAN
  /\ h_rid = Iota(NumRow, 0)
  /\ h_cfg \in WidthConfigs
  /\ HistStart(<<"R", "P">>)

NextWidth == BuildHistKernelCall

SpecWidth == WidthInit /\ [][NextWidth]_vars

\* C26: a build of a sparse input runs the kernel instantiated for 32-bit
\* bin indices whatever size the matrix reports, a build of a dense input
\* the kernel instantiated for the reported size, and a reported size other
\* than 8, 16 or 32 bits aborts the call with no kernel submitted
C26_BinWidthDispatch ==
  /\ \A p \in 1 .. Len(h_prog) :
       (p < host_pc /\ ~HostAborted) =>
         /\ Cardinality(MainSteps(h_prog[p])) = 1
         /\ \A c \in MainSteps(h_prog[p]) :
              cmds[c].bin_idx_type =
                (IF h_dense THEN h_cfg.bin_type_size ELSE kUint32BinsTypeSize)
  /\ (host_pc > 1 /\ h_cfg.bin_type_size \notin BinTypeSizes) =>
       /\ HostAborted
       /\ cmds = <<>>
  /\ HostAborted => h_cfg.bin_type_size \notin BinTypeSizes

\* a sparse matrix that reports 8-bit indices has been built with the
\* 32-bit kernel
C26_Witness ==
  /\ ~h_dense
  /\ h_cfg.bin_type_size = kUint8BinsTypeSize
  /\ host_pc = Len(h_prog) + 1
  /\ \E c \in MainSteps("P") : cmds[c].bin_idx_type = kUint32BinsTypeSize

(***************************************************************************)
(* The build kernels on rows that share bins across columns: SpecLanes     *)
(* builds the left child of a split that sent rows 0 and 3 to the left,  *)
(* then the parent, whose rows take more than one block.                   *)
(* In sparse form row 0 stores bin 3 in column 1 and row 3 stores it in    *)
(* column 0, so with two work-items per group both add to that bin.        *)
(***************************************************************************)
\* the row buffer after the split: rows 0 and 3, then the others
LanesRid == <<0, 3>> \o [k \in 1 .. (NumRow - 2) |-> IF k < 3 THEN k ELSE k + 1]

LanesInit ==
  /\ PartIdle
  /\ h_dense \in BOOLEAN
  /\ h_rid = LanesRid
  /\ h_cfg \in Configs
  /\ h_prog = <<"L", "P">>
  /\ gmat = (IF h_dense THEN DenseMatrixOf(2) ELSE MatrixOf(2))
  /\ h_split = 2
  /\ hist = [s \in Slots |-> [b \in 1 .. NBins |-> PriorPair]]
  /\ hist_buffer = [k \in 1 .. (MaxNBlocks * NBins) |-> PriorPair]
  /\ cmds = <<>>
  /\ lanes = <<>>
  /\ host_pc = 1
  /\ last_token = 0
  /\ sub_after_builds = FALSE

SpecLanes == LanesInit /\ [][NextBuild]_vars

\* the bins below nbins the work-item feat of a group adds to in row idx of
\* its block
LaneBins(slot, block, idx, feat) ==
  {IdxBin(Rid(slot, block * BlockSize(slot) + idx), j) :
     j \in {jj \in 0 .. (NColumns - 1) : jj % WorkGroupSize(slot) = feat}}
  \cap (0 .. (NBins - 1))

\* the work-item is about to load the bin it adds to, or has loaded it and
\* not yet stored the sum
InUpdate(l) == lanes[l].stage \in {"read", "write"}

\* the position of the scratch the work-item adds to
UpdateTarget(slot, l) ==
  HistLocal(l[1], IdxBin(Rid(slot, l[1] * BlockSize(slot) + lanes[l].idx),
                         lanes[l].j))

\* the slice of the scratch of a block
SliceOf(block) == (block * NBins + 1) .. ((block + 1) * NBins)

\* the sum of the pairs of the cells of the rows of a block below size whose
\* bin is b
SliceSum(slot, block, b) ==
  SumPairs([n \in 1 .. (BlockSize(slot) * NColumns) |->
    LET idx == (n - 1) \div NColumns
        j == (n - 1) % NColumns
        i == block * BlockSize(slot) + idx
    IN  IF i < Size(slot)
        THEN IF IdxBin(Rid(slot, i), j) = b THEN PghRow(Rid(slot, i))
             ELSE ZeroPair
        ELSE ZeroPair])

\* the main kernel of command group c is complete and its ReduceHist is not
MainJustDone(c) ==
  /\ cmds[c].st = "complete"
  /\ c + 1 \in DOMAIN cmds
  /\ cmds[c + 1].kind = "reduce"
  /\ cmds[c + 1].st # "complete"

\* C28: in the buffered kernel two work-items of a group that are inside
\* their += at the same time are in the same row of the block, and the bins
\* they add to in that row are disjoint: updates of one bin by two
\* work-items lie in different rows, with the barrier between them. Every
\* update goes to the slice of the work-item's own block, and when the
\* kernel is complete no update is lost: every bin of every slice holds the
\* sum of its cells
C28_BufferedUpdatesAreBarriered ==
  \A c \in DOMAIN cmds :
    cmds[c].kind = "main_buffered" =>
      LET slot == cmds[c].slot
      IN  /\ cmds[c].st = "running" =>
               \A l \in DOMAIN lanes :
                 InUpdate(l) =>
                   /\ UpdateTarget(slot, l) \in SliceOf(l[1])
                   /\ \A m \in DOMAIN lanes :
                        (m # l /\ m[1] = l[1] /\ InUpdate(m)) =>
                          /\ lanes[m].idx = lanes[l].idx
                          /\ LaneBins(slot, l[1], lanes[l].idx, l[2])
                             \cap LaneBins(slot, m[1], lanes[m].idx, m[2]) = {}
          /\ MainJustDone(c) =>
               \A block \in 0 .. (NBlocks(slot) - 1), b \in 0 .. (NBins - 1) :
                 hist_buffer[HistLocal(block, b)] = SliceSum(slot, block, b)

\* the buffered kernel of the sparse left child is complete; in its one
\* block the work-item of column 1 added row 0 to bin 3 and the work-item
\* of column 0 added row 3 to the same bin, and the bin holds both rows
C28_Witness ==
  /\ ~h_dense
  /\ cmds # <<>>
  /\ \E c \in DOMAIN cmds :
       /\ cmds[c].kind = "main_buffered"
       /\ cmds[c].slot = "L"
       /\ MainJustDone(c)
  /\ WorkGroupSize("L") = 2
  /\ NBlocks("L") = 1
  /\ 3 \in LaneBins("L", 0, 0, 1) \cap LaneBins("L", 0, 1, 0)
  /\ hist_buffer[HistLocal(0, 3)] = PairAdd(PghRow(0), PghRow(3))

(***************************************************************************)
(* The atomic kernel with work-groups that do not divide the columns:      *)
(* SpecAtomic draws work-group sizes up to one more than the largest       *)
(* number of columns, so that the last group has work-items beyond the     *)
(* last column.                                                            *)
(***************************************************************************)
AtomicConfigs ==
  [work_group_size : 1 .. (NumFeatures + 1),
   block_size : {2},
   use_atomics : {TRUE},
   use_local_hist : {FALSE},
   force_atomic_use : {FALSE}]

AtomicInit ==
  /\ h_dense \in BOOLEAN
  /\ h_rid = Reverse(Iota(NumRow, 0))
  /\ h_cfg \in AtomicConfigs
  /\ HistStart(<<"R", "P">>)

\* the steps of a build by the atomic kernel: it has no ReduceHist
NextAtomic ==
  \/ BuildHist
  \/ \E c \in DOMAIN cmds : Fill(c)
  \/ \E c \in DOMAIN cmds : StartMain(c)
  \/ \E c \in DOMAIN cmds, l \in DOMAIN lanes : AtomicAdd(c, l)
  \/ \E c \in DOMAIN cmds : FinishMain(c)

SpecAtomic == AtomicInit /\ [][NextAtomic]_vars

\* the work-items of the running atomic kernel that are done and whose
\* (row, column) stores bin b
DoneLanesOfBin(slot, b) ==
  {l \in DOMAIN lanes :
     /\ lanes[l].stage = "done"
     /\ l[2] < NColumns
     /\ IdxBin(Rid(slot, l[1]), l[2]) = b}

\* the sum of the pairs of the rows of a set of work-items
RECURSIVE SumLanes(_, _)
SumLanes(slot, ls) ==
  IF ls = {} THEN ZeroPair
  ELSE LET l == CHOOSE m \in ls : TRUE
       IN  PairAdd(PghRow(Rid(slot, l[1])), SumLanes(slot, ls \ {l}))

\* C29: in the atomic kernel every (row, column) pair with i < size and
\* j < n_columns belongs to exactly one work-item, a work-item with
\* j >= n_columns never adds, at every moment a bin holds the pairs of
\* exactly the work-items that have added to it, and the complete histogram
\* is the sum over the cells of every bin whatever the order of the adds
C29_AtomicLanesAddOnce ==
  \A c \in DOMAIN cmds :
    cmds[c].kind = "main_atomic" =>
      LET slot == cmds[c].slot
      IN  /\ cmds[c].st = "running" =>
               /\ \A i \in 0 .. (Size(slot) - 1), j \in 0 .. (NColumns - 1) :
                    Cardinality({l \in DOMAIN lanes : l[1] = i /\ l[2] = j}) = 1
               /\ \A l \in DOMAIN lanes :
                    /\ l[1] < Size(slot)
                    /\ l[2] >= NColumns => lanes[l].stage = "done"
               /\ \A b \in 0 .. (NBins - 1) :
                    hist[slot][b + 1] = SumLanes(slot, DoneLanesOfBin(slot, b))
          /\ cmds[c].st = "complete" =>
               \A b \in 0 .. (NBins - 1) :
                 hist[slot][b + 1] = SumCells(CellsWithBin(slot, b))

\* the atomic kernel of the parent runs with three work-items per row on
\* two columns: the third work-item of the first row has no column, and
\* some of the others have added
C29_Witness ==
  /\ cmds # <<>>
  /\ \E c \in DOMAIN cmds :
       /\ cmds[c].kind = "main_atomic"
       /\ cmds[c].slot = "P"
       /\ cmds[c].st = "running"
  /\ WorkGroupSize("P") > NColumns
  /\ <<0, NColumns>> \in DOMAIN lanes
  /\ \E b \in 1 .. NBins : hist["P"][b][2] >= 2
  /\ \E l \in DOMAIN lanes : lanes[l].stage = "add"

\* the sum of the pairs of the cells (i, j) of a node with i < size whose
\* position i lies in block floor(i / block.size) = block and whose bin is b
SliceCellSum(slot, block, b) ==
  SumPairs([n \in 1 .. (Size(slot) * NColumns) |->
    LET i == (n - 1) \div NColumns
        j == (n - 1) % NColumns
    IN  IF i \div BlockSize(slot) = block /\ IdxBin(Rid(slot, i), j) = b
        THEN PghRow(Rid(slot, i)) ELSE ZeroPair])

\* the ReduceHist of command group c is complete and the next build has not
\* touched the scratch
ReduceJustDone(c) ==
  /\ cmds[c].kind = "reduce"
  /\ cmds[c].st = "complete"
  /\ (c + 1) \in DOMAIN cmds => cmds[c + 1].st = "submitted"

\* C30: the blocks of the buffered kernel and of the kernel with local
\* histograms cover the node (nblocks * block.size >= size); when the main
\* kernel is complete bin b of the slice of a block holds each cell of the
\* positions of that block below size once and nothing else, and the
\* reduction sets hist[b] to the sum of entry b over the nblocks slices
C30_BlocksAccumulateOnce ==
  \A c \in DOMAIN cmds :
    LET slot == cmds[c].slot
    IN  /\ cmds[c].kind \in {"main_buffered", "main_local"} =>
             /\ NBlocks(slot) * BlockSize(slot) >= Size(slot)
             /\ MainJustDone(c) =>
                  \A block \in 0 .. (NBlocks(slot) - 1), b \in 0 .. (NBins - 1) :
                    hist_buffer[block * NBins + b + 1] =
                      SliceCellSum(slot, block, b)
        /\ ReduceJustDone(c) =>
             \A b \in 0 .. (NBins - 1) :
               hist[slot][b + 1] =
                 SumPairs([k \in 1 .. NBlocks(slot) |->
                             hist_buffer[(k - 1) * NBins + b + 1]])

\* the parent is built with blocks of three positions: its second block
\* holds one row and two positions beyond size, both slices hold rows, and
\* the reduction has added them
C30_Witness ==
  /\ cmds # <<>>
  /\ BlockSize("P") = 3
  /\ NBlocks("P") * BlockSize("P") > Size("P")
  /\ \E c \in DOMAIN cmds :
       /\ cmds[c].slot = "P"
       /\ ReduceJustDone(c)
  /\ \E b \in 0 .. (NBins - 1) :
       /\ hist_buffer[b + 1][2] >= 1
       /\ hist_buffer[NBins + b + 1][2] >= 1
       /\ hist["P"][b + 1] = PairAdd(hist_buffer[b + 1], hist_buffer[NBins + b + 1])

(***************************************************************************)
(* The scratch of the kernel with local histograms, which no fill clears.  *)
(***************************************************************************)
\* the feature whose bin range holds global bin b
FeatureOfBin(b) == CHOOSE f \in Features : Ptrs[f + 1] <= b /\ b < Ptrs[f + 2]

\* the work-items of the running kernel with local histograms that store
\* entry b of the slice of a block
WritersOf(slot, block, b) ==
  {l \in DOMAIN lanes :
     /\ l[1] = block
     /\ FeatureOfBin(b) % WorkGroupSize(slot) = l[2]}

\* the work-item has stored the bins of feature f
HasStored(l, f) == lanes[l].stage = "done" \/ lanes[l].j > f

\* C31: a build by the kernel with local histograms submits no fill of the
\* scratch; every entry block * B + b with block < nblocks and b < B has
\* exactly one work-item that stores it, the entry holds the sum of the
\* cells of its block and bin, whatever it held before, from the moment
\* that work-item has stored the bins of its feature, and all of them have
\* when the kernel is complete and ReduceHist reads them
C31_LocalScratchIsAssigned ==
  \A c \in DOMAIN cmds :
    cmds[c].kind = "main_local" =>
      LET slot == cmds[c].slot
      IN  /\ \A d \in StepsOf(slot) : cmds[d].kind # "fill_buffer"
          /\ cmds[c].st = "running" =>
               \A block \in 0 .. (NBlocks(slot) - 1), b \in 0 .. (NBins - 1) :
                 /\ Cardinality(WritersOf(slot, block, b)) = 1
                 /\ \A l \in WritersOf(slot, block, b) :
                      HasStored(l, FeatureOfBin(b)) =>
                        hist_buffer[block * NBins + b + 1]
                          = SliceCellSum(slot, block, b)
          /\ MainJustDone(c) =>
               \A block \in 0 .. (NBlocks(slot) - 1), b \in 0 .. (NBins - 1) :
                 hist_buffer[block * NBins + b + 1] = SliceCellSum(slot, block, b)

\* the kernel with local histograms of the parent runs on two blocks after
\* the build of the left child: an entry of the second slice still holds
\* what the scratch held before, and a work-item has stored its bins
C31_Witness ==
  /\ cmds # <<>>
  /\ \E c \in DOMAIN cmds :
       /\ cmds[c].kind = "main_local"
       /\ cmds[c].slot = "P"
       /\ cmds[c].st = "running"
  /\ NBlocks("P") = 2
  /\ \E b \in 0 .. (NBins - 1) :
       /\ hist_buffer[NBins + b + 1] = PriorPair
       /\ \A l \in WritersOf("P", 1, b) : ~HasStored(l, FeatureOfBin(b))
  /\ \E l \in DOMAIN lanes : l[1] = 1 /\ lanes[l].stage = "done"

(***************************************************************************)
(* One build from several prior contents of the histogram and the scratch: *)
(* SpecPrior builds the parent with every kernel.                          *)
(***************************************************************************)
\* the contents an array of n pairs may hold before a build: the same pair
\* everywhere, or a different pair at every position
PriorContents(n) ==
  { [k \in 1 .. n |-> PriorPair], [k \in 1 .. n |-> <<k, k + 1>>] }

PriorInit ==
  /\ PartIdle
  /\ h_dense \in BOOLEAN
  /\ h_rid = LanesRid
  /\ h_cfg \in Configs
  /\ h_prog = <<"P">>
  /\ gmat = (IF h_dense THEN DenseMatrixOf(2) ELSE MatrixOf(2))
  /\ h_split = 2
  /\ \E prior \in PriorContents(NBins) : hist = [s \in Slots |-> prior]
  /\ hist_buffer \in PriorContents(MaxNBlocks * NBins)
  /\ cmds = <<>>
  /\ lanes = <<>>
  /\ host_pc = 1
  /\ last_token = 0
  /\ sub_after_builds = FALSE

SpecPrior == PriorInit /\ [][NextBuild]_vars

\* the histogram of a node as a function of the matrix, the row range and
\* the gradient pairs alone
HistOfInputs(slot) ==
  [b \in 1 .. NBins |-> SumCells(CellsWithBin(slot, b - 1))]

\* C32: for every kernel the histogram a complete build returns is
\* determined by the matrix, the row range and the gradient pairs: builds
\* that start from different contents of the output histogram and of the
\* scratch end with the same histogram
C32_OutputIndependentOfPrior ==
  \A slot \in Built : BuildDone(slot) => hist[slot] = HistOfInputs(slot)

\* a build of the parent is complete whose histogram and scratch started
\* with a different pair at every position, and the histograms that were
\* not built still hold that content
C32_Witness ==
  /\ BuildDone("P")
  /\ hist["L"] = [k \in 1 .. NBins |-> <<k, k + 1>>]
  /\ hist["P"] # hist["L"]
  /\ \E k \in DOMAIN hist_buffer : hist_buffer[k] = <<k, k + 1>>

(***************************************************************************)
(* The dispatcher's choice of the kernel with local histograms. hist_fast  *)
(* has KMaxNumBins entries, a constant of the build: SpecLocalBins draws   *)
(* it, as k_max_num_bins of h_cfg, from values below, at and above the     *)
(* widest feature of the matrix, and lets the caller submit its builds.    *)
(***************************************************************************)
\* n_bins_feature = offsets[fid + 1] - offsets[fid]
NBinsFeature(fid) == Ptrs[fid + 2] - Ptrs[fid + 1]

\* gmat.max_num_bins: the number of bins of the widest feature
max_num_bins ==
  CHOOSE m \in {NBinsFeature(f) : f \in Features} :
    \A f \in Features : NBinsFeature(f) <= m

\* a dispatcher that looks at the layout only
UseLocalHist_DenseOnly(isDense, max_bins, k_max_num_bins) == isDense

\* the dispatcher sets use_local_hist for a dense input whose widest
\* feature has at most KMaxNumBins bins
UseLocalHist(isDense, max_bins, k_max_num_bins) ==
  isDense /\ max_bins <= k_max_num_bins

LocalBinsConfigs ==
  {c \in [work_group_size : 1 .. MaxWorkGroupSize,
          block_size : 2 .. MaxBlockSize,
          use_atomics : BOOLEAN,
          use_local_hist : BOOLEAN,
          force_atomic_use : BOOLEAN,
          k_max_num_bins : (max_num_bins - 1) .. (max_num_bins + 1)] :
     c.use_local_hist = UseLocalHist(h_dense, max_num_bins, c.k_max_num_bins)}

LocalBinsInit ==
  /\ h_dense \in BOOLEAN
  /\ h_rid = Iota(NumRow, 0)
  /\ h_cfg \in LocalBinsConfigs
  /\ HistStart(<<"R", "P">>)

SpecLocalBins == LocalBinsInit /\ [][NextDispatch]_vars

\* the indices the kernel with local histograms uses on hist_fast for a
\* node: the stored bin of every cell, and every bin of every feature
HistFastIndices(slot) ==
  {GradientIndex(r, f) : r \in NodeRows(slot), f \in Features}
  \cup UNION {0 .. (NBinsFeature(f) - 1) : f \in Features}

\* the indices of hist_local the kernel with local histograms stores to
HistLocalIndices ==
  UNION {{bin + Ptrs[f + 1] : bin \in 0 .. (NBinsFeature(f) - 1)} : f \in Features}

\* C33: the kernel with local histograms is submitted only for a dense
\* input whose widest feature has at most kMaxNumBins bins; for every node
\* it is submitted for, every index used on hist_fast is below kMaxNumBins
\* and every index stored to in the slice is below B
C33_LocalKernelIndicesInRange ==
  \A c \in DOMAIN cmds :
    cmds[c].kind = "main_local" =>
      /\ h_dense
      /\ max_num_bins <= h_cfg.k_max_num_bins
      /\ \A k \in HistFastIndices(cmds[c].slot) : k < h_cfg.k_max_num_bins
      /\ \A k \in HistLocalIndices : k < NBins

\* the kernel with local histograms has been submitted in a build whose
\* hist_fast has exactly as many entries as the widest feature has bins,
\* and a cell of the node uses the last of them
C33_Witness ==
  /\ h_dense
  /\ h_cfg.k_max_num_bins = max_num_bins
  /\ host_pc > Len(h_prog)
  /\ MainKinds("P") = {"main_local"}
  /\ (h_cfg.k_max_num_bins - 1) \in HistFastIndices("P")

(***************************************************************************)
(* Cells that hold the sentinel bin B in the buffered and the atomic       *)
(* kernel.                                                                 *)
(***************************************************************************)
\* the (row id, column) cells of a node
NodeCells(slot) == NodeRows(slot) \X (0 .. (NColumns - 1))

\* the cells of a node whose global bin is below B
CellsBelowB(slot) == {x \in NodeCells(slot) : IdxBin(x[1], x[2]) < NBins}

\* the cells of a node that hold the sentinel
SentinelCells(slot) == {x \in NodeCells(slot) : IdxBin(x[1], x[2]) = NBins}

\* the row id of the cell a work-item of the running kernel is at
LaneRow(c, l) ==
  IF cmds[c].kind = "main_atomic" THEN Rid(cmds[c].slot, l[1])
  ELSE Rid(cmds[c].slot, l[1] * BlockSize(cmds[c].slot) + lanes[l].idx)

\* the column of the cell a work-item of the running kernel is at
LaneColumn(c, l) == IF cmds[c].kind = "main_atomic" THEN l[2] ELSE lanes[l].j

\* C34: in the buffered and in the atomic kernel a work-item adds only for
\* a cell whose global bin is below B, and what it adds to is one of the B
\* entries of its slice or of the histogram; when the kernel is complete
\* the entries together hold the pairs of exactly the cells below B, so a
\* cell with the sentinel B has changed no entry
C34_SentinelCellsAddNothing ==
  \A c \in DOMAIN cmds :
    cmds[c].kind \in {"main_buffered", "main_atomic"} =>
      LET slot == cmds[c].slot
      IN  /\ cmds[c].st = "running" =>
               \A l \in DOMAIN lanes :
                 lanes[l].stage \in {"read", "write", "add"} =>
                   LET idx_bin == IdxBin(LaneRow(c, l), LaneColumn(c, l))
                   IN  /\ idx_bin < NBins
                       /\ cmds[c].kind = "main_buffered" =>
                            HistLocal(l[1], idx_bin) \in SliceOf(l[1])
                       /\ cmds[c].kind = "main_atomic" =>
                            (idx_bin + 1) \in DOMAIN hist[slot]
          /\ (cmds[c].kind = "main_buffered" /\ MainJustDone(c)) =>
               SumPairs([k \in 1 .. (NBlocks(slot) * NBins) |-> hist_buffer[k]])
                 = SumCells(CellsBelowB(slot))
          /\ (cmds[c].kind = "main_atomic" /\ cmds[c].st = "complete") =>
               SumBins(hist[slot], 0 .. (NBins - 1)) = SumCells(CellsBelowB(slot))

\* the atomic kernel of a sparse parent with rows that have missing
\* features is complete: work-items were launched for the cells with the
\* sentinel, and the histogram holds fewer pairs than the node has cells
C34_Witness ==
  /\ ~h_dense
  /\ cmds # <<>>
  /\ \E c \in DOMAIN cmds :
       /\ cmds[c].kind = "main_atomic"
       /\ cmds[c].slot = "P"
       /\ cmds[c].st = "complete"
  /\ SentinelCells("P") # {}
  /\ SumBins(hist["P"], 0 .. (NBins - 1))[2]
       = Cardinality(NodeCells("P")) - Cardinality(SentinelCells("P"))

(***************************************************************************)
(* ColumnSplitHelper::Partition on its own: SpecMask starts every run in   *)
(* column-split mode and leaves out the failures.                          *)
(***************************************************************************)
MaskInit == Init /\ is_col_split

NextMask ==
  \/ UpdatePositionBegin
  \/ \E w \in Workers, tid \in Threads : MaskTask(w, tid)
  \/ \E w \in Workers : ReduceThreadLocal(w)
  \/ AllreduceDecision
  \/ AllreduceMissing
  \/ \E w \in Workers, tid \in Threads : PartitionByMaskTask(w, tid)
  \/ \E w \in Workers : CalculateRowOffsetsStep(w)
  \/ \E w \in Workers, tid \in Threads : MergeTask(w, tid)
  \/ \E w \in Workers : AddSplitsToRowSet(w)
  \/ Return

SpecMask == MaskInit /\ [][NextMask]_vars

\* the bits that are 1 in the replica of thread tidx
ReplicaBits(tloc, n, tidx) ==
  {i \in BitsOf(n) : CheckBit(Slice(tloc, n * tidx, n * tidx + n), i)}

\* the bits that are 1 in a worker-local vector
VectorBits(storage) == {i \in BitsOf(Len(storage)) : CheckBit(storage, i)}

\* the tasks of the space a thread has run in the running region
TasksRun(w, tid) == ThreadBegin(tid, Len(space)) .. (next_task[w][tid] - 1)

\* the tasks of the space that belong to a thread
TasksOfThread(tid) ==
  ThreadBegin(tid, Len(space)) .. (ThreadEnd(tid, Len(space)) - 1)

\* the decision bits MaskRows sets for task k
DecisionBitsOfTask(w, k) ==
  LET task == space[k + 1]
      nid == nodes[task.node_in_set + 1]
  IN  MaskRowsDecision(w, nid, task.begin, task.end,
                       SplitCondOf(split_conditions, task.node_in_set),
                       elems[w][nid].begin)

\* the missing bits MaskRows sets for task k
MissingBitsOfTask(w, k) ==
  LET task == space[k + 1]
      nid == nodes[task.node_in_set + 1]
  IN  MaskRowsMissing(w, nid, task.begin, task.end, elems[w][nid].begin)

\* C35: while the threads of a worker mask rows, the replica of a thread
\* holds exactly the bits of the tasks that thread has run, nothing of
\* another thread's tasks, and the worker-local vectors hold no bit: a
\* thread writes into its own replica only
C35_ThreadsWriteOwnReplica ==
  \A w \in Workers :
    pc[w] = "mask" =>
      LET n == Len(decision_storage[w])
      IN  /\ Len(tloc_decision[w]) = n * NumThreads
          /\ Len(tloc_missing[w]) = n * NumThreads
          /\ VectorBits(decision_storage[w]) = {}
          /\ VectorBits(missing_storage[w]) = {}
          /\ \A tid \in Threads :
               /\ ReplicaBits(tloc_decision[w], n, tid)
                    = UNION {DecisionBitsOfTask(w, k) : k \in TasksRun(w, tid)}
               /\ ReplicaBits(tloc_missing[w], n, tid)
                    = UNION {MissingBitsOfTask(w, k) : k \in TasksRun(w, tid)}

\* two threads of a worker have each run a task whose rows lie in the same
\* word of the bit vector, and each has set a bit of that word in its own
\* replica
C35_Witness ==
  /\ pc[0] = "mask"
  /\ \E t \in Threads, u \in Threads :
       /\ t # u
       /\ \E i \in ReplicaBits(tloc_decision[0] , Len(decision_storage[0]), t)
                     \cup ReplicaBits(tloc_missing[0], Len(decision_storage[0]), t),
             j \in ReplicaBits(tloc_decision[0] , Len(decision_storage[0]), u)
                     \cup ReplicaBits(tloc_missing[0], Len(decision_storage[0]), u) :
            /\ i # j
            /\ i \div kValueSize = j \div kValueSize


\* the tasks of the whole space
AllTasks == 0 .. (Len(space) - 1)

\* C36: after the thread-local reduction and before the all-reduce, a bit of
\* the worker-local decision (missing) vector is 1 exactly when it is 1 in
\* the replica of some thread, which is exactly when some task of the
\* region has set it
C36_LocalVectorIsOrOfReplicas ==
  \A w \in Workers :
    pc[w] = "allreduce_decision" =>
      LET n == Len(decision_storage[w])
      IN  /\ VectorBits(decision_storage[w])
               = UNION {ReplicaBits(tloc_decision[w], n, tid) : tid \in Threads}
          /\ VectorBits(missing_storage[w])
               = UNION {ReplicaBits(tloc_missing[w], n, tid) : tid \in Threads}
          /\ VectorBits(decision_storage[w])
               = UNION {DecisionBitsOfTask(w, k) : k \in AllTasks}
          /\ VectorBits(missing_storage[w])
               = UNION {MissingBitsOfTask(w, k) : k \in AllTasks}

\* the vector of a worker holds a decision bit set by a task of the last
\* thread and one set by a task of the first thread
C36_Witness ==
  /\ pc[0] = "allreduce_decision"
  /\ \E i \in VectorBits(decision_storage[0]), j \in VectorBits(decision_storage[0]) :
       /\ \E k \in TasksOfThread(0) : i \in DecisionBitsOfTask(0, k)
       /\ \E k \in TasksOfThread(NumThreads - 1) : j \in DecisionBitsOfTask(0, k)
       /\ ~ \E k \in TasksOfThread(0) : j \in DecisionBitsOfTask(0, k)
  /\ VectorBits(missing_storage[0]) # {}


\* the rows (less the base row id) a worker holds for node nid
NodeBits(w, nid) ==
  {row_indices[w][k] - base_rowid[w] :
     k \in (elems[w][nid].begin + 1) .. elems[w][nid].end}

\* C37: a Partition call clears the worker-local vectors and the replicas
\* before it masks a row, so that the bits the second pass reads are those
\* of the current call alone: the decision bits some worker's task of this
\* call has set, the missing bits every worker's tasks of this call have
\* set
C37_MasksOfCurrentCallOnly ==
  /\ \A w \in Workers :
       pc[w] = "mask" /\ next_task[w] = StartOfRegion(Len(space)) =>
         /\ VectorBits(decision_storage[w]) = {}
         /\ VectorBits(missing_storage[w]) = {}
         /\ VectorBits(tloc_decision[w]) = {}
         /\ VectorBits(tloc_missing[w]) = {}
  /\ (\A w \in Workers : pc[w] = "partition_by_mask") =>
       \A w \in Workers :
         /\ VectorBits(decision_storage[w])
              = UNION {DecisionBitsOfTask(v, k) : v \in Workers, k \in AllTasks}
         /\ VectorBits(missing_storage[w])
              = {i \in BitsOf(Len(missing_storage[w])) :
                   \A v \in Workers :
                     \E k \in AllTasks : i \in MissingBitsOfTask(v, k)}

\* a later call that splits the left child of the root only: a row of the
\* right child, whose decision bit the call before had set, has its bit
\* clear when the second pass starts
C37_Witness ==
  /\ Len(tree) >= 5
  /\ nodes = <<1>>
  /\ \A w \in Workers : pc[w] = "partition_by_mask"
  /\ VectorBits(decision_storage[0]) # {}
  /\ \E i \in NodeBits(0, 2) :
       /\ gmat[i + 1][SplitIndex(tree, 0) + 1] # Missing
       /\ ~CheckBit(decision_storage[0], i)


(***************************************************************************)
(* AddSplitsToRowSet on trees whose child ids need not be adjacent.  The   *)
(* tree is an argument of UpdatePosition; a RegTree that reuses the id of  *)
(* a deleted node hands out two ids that are not neighbours.               *)
(***************************************************************************)

\* the nodes a split of nidx adds when the id between its children is taken
ExpandNodeApart(t, nidx, sp) ==
  [t EXCEPT ![nidx + 1] =
     [leaf |-> FALSE, fidx |-> sp.fidx, split_pt |-> sp.split_pt,
      default_left |-> sp.default_left,
      cleft |-> Len(t), cright |-> Len(t) + 2]]
  \o <<LeafNode, LeafNode, LeafNode>>

\* UpdatePosition of one node of a tree whose new children are not
\* neighbours
UpdatePositionApart ==
  /\ \A w \in ActiveWorkers : pc[w] = "idle"
  /\ \E n \in SplittableLeaves :
       /\ Len(tree) + 3 <= NodeCapacity
       /\ \E sp \in SplitChoices, gmat_base_rowid_arg \in Bases :
            UpdatePositionCall(ExpandNodeApart(tree, n, sp), <<n>>,
                               gmat_base_rowid_arg)

AddSplitInit == Init /\ ~is_col_split

NextAddSplit ==
  \/ UpdatePositionBegin
  \/ UpdatePositionApart
  \/ \E w \in Workers, tid \in Threads : PartitionTask(w, tid)
  \/ \E w \in Workers : CalculateRowOffsetsStep(w)
  \/ \E w \in Workers, tid \in Threads : MergeTask(w, tid)
  \/ \E w \in Workers : AddSplitsToRowSet(w)
  \/ Return

SpecAddSplit == AddSplitInit /\ [][NextAddSplit]_vars

\* AddSplitsToRowSet is the next step of worker w
AtAddSplits(w) == pc[w] = "merge" /\ RegionDone(next_task[w], Len(space))

\* the children of every node of the set have neighbouring ids
ChildrenAdjacent ==
  \A i \in 1 .. Len(nodes) :
    LeftChild(tree, nodes[i]) + 1 = RightChild(tree, nodes[i])

\* the counts AddSplitsToRowSet passes for node i of the set
NLeftElems(w, i) == left_right_nodes_sizes[w][i].n_left
NRightElems(w, i) == left_right_nodes_sizes[w][i].n_right

\* the counts of every node add up to the size of the node's range
C38_CountsFillRange(w) ==
  \A i \in 1 .. Len(nodes) :
    NLeftElems(w, i) + NRightElems(w, i) = ElemSize(elems[w][nodes[i]])

\* the ranges of the children of every node after the call
C38_ChildRanges(w) ==
  \A i \in 1 .. Len(nodes) :
    LET begin == elems[w][nodes[i]].begin
        left == elems[w][LeftChild(tree, nodes[i])]
        right == elems[w][RightChild(tree, nodes[i])]
    IN  /\ elems[w][nodes[i]] = pre_elems[w][nodes[i]]
        /\ left.begin = begin
        /\ left.end = begin + NLeftElems(w, i)
        /\ right.begin = begin + NLeftElems(w, i)
        /\ right.end = begin + NLeftElems(w, i) + NRightElems(w, i)
        /\ right.end = elems[w][nodes[i]].end

\* the step of AddSplitsToRowSet: it ends the call normally exactly when
\* the children of every node are neighbours, and aborts otherwise
C38_AddSplitsStep ==
  \A w \in Workers :
    AtAddSplits(w) /\ pc'[w] # pc[w] =>
      /\ ChildrenAdjacent => pc'[w] = "done"
      /\ ~ChildrenAdjacent => pc'[w] = "abort"

\* C38: for every node AddSplitsToRowSet applies, n_left + n_right is the
\* size of the node's range, the left child receives [begin, begin + n_left)
\* and the right child the adjacent [begin + n_left, begin + n_left +
\* n_right), and the call aborts when the right child's id is not the left
\* child's id plus one
C38_AddSplitsToRowSet ==
  /\ [](\A w \in Workers :
          /\ AtAddSplits(w) => C38_CountsFillRange(w)
          /\ pc[w] = "done" => ChildrenAdjacent /\ C38_ChildRanges(w))
  /\ [][C38_AddSplitsStep]_vars

\* a call over two nodes has ended: both children of the second node hold
\* rows, next to each other
C38_Witness ==
  /\ pc[0] = "done"
  /\ Len(nodes) = 2
  /\ NLeftElems(0, 2) > 0
  /\ NRightElems(0, 2) > 0
  /\ elems[0][nodes[2]].begin > 0

\* a call has aborted in AddSplitsToRowSet on a node whose children are not
\* neighbours
C38_WitnessAbort ==
  /\ pc[0] = "abort"
  /\ ~ChildrenAdjacent
  /\ left_right_nodes_sizes[0] # <<>>
  /\ elems[0][LeftChild(tree, nodes[1])] = NoElem


(***************************************************************************)
(* FindSplitConditions on cut tables whose pointers reach the limits of    *)
(* the 32-bit types.  In SpecCuts the variable gmat holds gmat.cut, the    *)
(* only part of the matrix FindSplitConditions reads: ptrs as the          *)
(* sequence of the cut pointers, vals as the cut value of a bin.           *)
(***************************************************************************)

\* a std::uint32_t, kept as its top bit and its low 31 bits: the checker's
\* integers end at the largest signed 32-bit value
UInt32(top, low) == [top |-> top, low |-> low]

\* the std::uint32_t of a small number
ToUInt32(n) == UInt32(0, n)

\* a < b on std::uint32_t
Less(a, b) == a.top < b.top \/ (a.top = b.top /\ a.low < b.low)

\* ++bound on std::uint32_t
Incr(a) ==
  IF a.low < Int32Max THEN UInt32(a.top, a.low + 1)
  ELSE UInt32(1 - a.top, 0)

\* static_cast<uint32_t>(std::numeric_limits<int32_t>::max())
UInt32OfInt32Max == UInt32(0, Int32Max)

\* static_cast<bst_bin_t>(bound): a value with the top bit set comes out
\* negative
BstBin(bound) ==
  IF bound.top = 1 THEN (bound.low - Int32Max) - 1 ELSE bound.low

\* a call without the check
CheckUpperBound_None(upper_bound) == TRUE

\* CHECK_LT(upper_bound, static_cast<uint32_t>(int32 max))
CheckUpperBound(upper_bound) == Less(upper_bound, UInt32OfInt32Max)

\* the loop over [lower_bound, upper_bound) on the values vals
RECURSIVE ScanCutsOf(_, _, _, _, _)
ScanCutsOf(vals, bound, upper_bound, split_pt, split_cond) ==
  IF ~Less(bound, upper_bound) THEN split_cond
  ELSE ScanCutsOf(vals, Incr(bound), upper_bound, split_pt,
                  IF split_pt = vals[bound] THEN BstBin(bound)
                  ELSE split_cond)

\* the loop over the nodes from node i of the set on: conds is the vector
\* the caller has resized, ok is FALSE when a CHECK has failed
RECURSIVE FindSplitConditionsFrom(_, _, _, _, _)
FindSplitConditionsFrom(cut, ns, t, i, conds) ==
  IF i > Len(ns) THEN [ok |-> TRUE, conds |-> conds]
  ELSE LET fidx == SplitIndex(t, ns[i])
           lower_bound == cut.ptrs[fidx + 1]
           upper_bound == cut.ptrs[fidx + 2]
       IN IF ~CheckUpperBound(upper_bound)
          THEN [ok |-> FALSE, conds |-> conds]
          ELSE FindSplitConditionsFrom(cut, ns, t, i + 1,
                 [conds EXCEPT ![i] =
                    ScanCutsOf(cut.vals, lower_bound, upper_bound,
                               SplitCond(t, ns[i]), -1)])

\* the pointers of the tables: the usual ones, and pointers around the
\* largest signed and the largest unsigned value
CutPtrs ==
  { [i \in 1 .. Len(Ptrs) |-> ToUInt32(Ptrs[i])],
    <<ToUInt32(0), UInt32(0, Int32Max - 3), UInt32(0, Int32Max - 1)>>,
    <<ToUInt32(0), UInt32(0, Int32Max - 2), UInt32(0, Int32Max)>>,
    <<ToUInt32(0), UInt32(0, Int32Max - 1), UInt32(1, 0)>>,
    <<ToUInt32(0), UInt32(0, Int32Max), UInt32(1, 1)>>,
    <<ToUInt32(0), UInt32(1, Int32Max - 2), UInt32(1, Int32Max)>> }

\* the cuts of a feature that has at most two
CutsOfNarrow(ptrs, f) ==
  {b \in {ptrs[f + 1], Incr(ptrs[f + 1])} : Less(b, ptrs[f + 2])}

\* the features of a table the nodes may split on: a feature with more than
\* two cuts is left to no node
NarrowFeatures(ptrs) ==
  {f \in Features : ~Less(Incr(Incr(ptrs[f + 1])), ptrs[f + 2])}

\* the table with the pointers ptrs: the cut values alternate as in Values
CutTable(ptrs) ==
  [ptrs |-> ptrs,
   vals |-> [b \in UNION {CutsOfNarrow(ptrs, f) : f \in NarrowFeatures(ptrs)}
               |-> (b.low % 2) + 1]]

CutsInit ==
  \E ns \in FindNodeSets, ptrs \in CutPtrs :
    \E sp \in [{ns[i] : i \in 1 .. Len(ns)} ->
                 {c \in FindSplitChoices : c.fidx \in NarrowFeatures(ptrs)}] :
      LET t0 == IF ns = <<0>> THEN <<LeafNode>>
                ELSE ExpandNode(<<LeafNode>>, 0,
                                [fidx |-> 0, split_pt |-> 1,
                                 default_left |-> FALSE])
      IN /\ HistIdle
         /\ is_col_split = FALSE
         /\ base_rowid = [w \in Workers |-> 0]
         /\ row_indices = [w \in Workers |-> ResetRowIndices(NumRow, 0)]
         /\ elems = [w \in Workers |-> RowSetInit(NumRow)]
         /\ gmat = CutTable(ptrs)
         /\ gmat_base_rowid = 0
         /\ allreduce_log = <<>>
         /\ tree = ExpandAll(t0, ns, sp)
         /\ nodes = ns
         /\ pc = [w \in Workers |-> "idle"]
         /\ split_conditions = <<>>
         /\ space = <<>>
         /\ nodes_offsets = <<0>>
         /\ mem_blocks = [w \in Workers |-> <<>>]
         /\ left_right_nodes_sizes = [w \in Workers |-> <<>>]
         /\ next_task = [w \in Workers |-> [tid \in Threads |-> 0]]
         /\ decision_storage = [w \in Workers |-> <<>>]
         /\ missing_storage = [w \in Workers |-> <<>>]
         /\ tloc_decision = [w \in Workers |-> <<>>]
         /\ tloc_missing = [w \in Workers |-> <<>>]
         /\ local_decision = [w \in Workers |-> <<>>]
         /\ local_missing = [w \in Workers |-> <<>>]
         /\ pre_row_indices = [w \in Workers |-> <<>>]
         /\ pre_elems = [w \in Workers |-> <<>>]

\* split_conditions.resize(n_nodes); FindSplitConditions(nodes, *p_tree,
\* gmat, &split_conditions): the call returns, or a CHECK ends it
FindSplitConditionsCall ==
  /\ pc[0] = "idle"
  /\ LET res == FindSplitConditionsFrom(gmat, nodes, tree, 1,
                                        [i \in 1 .. Len(nodes) |-> 0])
     IN /\ split_conditions' = res.conds
        /\ pc' = [pc EXCEPT ![0] = IF res.ok THEN "done" ELSE "abort"]
  /\ UNCHANGED <<histVars, is_col_split, base_rowid, row_indices, elems, gmat,
                 gmat_base_rowid, allreduce_log, tree, nodes, space,
                 nodes_offsets, mem_blocks, left_right_nodes_sizes, next_task,
                 decision_storage, missing_storage, tloc_decision,
                 tloc_missing, local_decision, local_missing,
                 pre_row_indices, pre_elems>>

NextCuts == FindSplitConditionsCall

SpecCuts == CutsInit /\ [][NextCuts]_vars

\* the bounds of the feature node i of the set splits on
LowerBound(i) == gmat.ptrs[SplitIndex(tree, nodes[i]) + 1]
UpperBound(i) == gmat.ptrs[SplitIndex(tree, nodes[i]) + 2]

\* C39: FindSplitConditions aborts when the upper cut pointer of a node's
\* split feature does not fit in a signed 32-bit integer; when it returns,
\* every upper pointer fits and every split condition it has stored is -1
\* or the index of a cut in [lower, upper), the same number in the signed
\* result as in the unsigned loop variable
C39_UpperBoundFitsOrAbort ==
  /\ pc[0] # "idle" /\ (\E i \in 1 .. Len(nodes) : UpperBound(i).top = 1)
       => pc[0] = "abort"
  /\ pc[0] = "done" =>
       /\ Len(split_conditions) = Len(nodes)
       /\ \A i \in 1 .. Len(nodes) :
            /\ UpperBound(i).top = 0
            /\ \/ split_conditions[i] = -1
               \/ /\ split_conditions[i] >= 0
                  /\ ~Less(ToUInt32(split_conditions[i]), LowerBound(i))
                  /\ Less(ToUInt32(split_conditions[i]), UpperBound(i))
                  /\ gmat.vals[ToUInt32(split_conditions[i])]
                       = SplitCond(tree, nodes[i])

\* a call has returned with a split condition next to the largest signed
\* value
C39_Witness ==
  /\ pc[0] = "done"
  /\ \E i \in 1 .. Len(nodes) : split_conditions[i] = Int32Max - 2

\* a call has aborted on a second node whose feature's upper pointer is one
\* more than the largest signed value
C39_WitnessAbort ==
  /\ pc[0] = "abort"
  /\ Len(nodes) = 2
  /\ UpperBound(2) = UInt32(1, 0)


\* the event the subtraction of SubtractionTrick was made to depend on
SubtractionDependsOn ==
  {cmds[c].dep : c \in {k \in DOMAIN cmds : cmds[k].kind = "subtract"}}

\* the command groups whose completion is the completion of a build
BuildTokens(slot) ==
  {c \in DOMAIN cmds :
     cmds[c].slot = slot /\ cmds[c].kind \in {"reduce", "main_atomic"}}

\* C40: the subtraction SubtractionTrick submits reads parent and sibling
\* only after the builds that produce them have completed: whenever the
\* subtraction has run, the builds of P and of L were complete when it ran
C40_SubtractionAfterBuilds ==
  SubtractionDone => sub_after_builds

\* the subtraction has run before the builds of parent and sibling were
\* complete; it depends on no command group, and now that all builds are
\* complete the derived histogram is not parent minus sibling
C40_Witness ==
  /\ SubtractionDone
  /\ ~sub_after_builds
  /\ SubtractionDependsOn = {0}
  /\ BuildTokens("P") # {} /\ BuildTokens("L") # {}
  /\ BuildDone("P") /\ BuildDone("L")
  /\ \E b \in 1 .. NBins :
       hist["S"][b] # PairSub(hist["P"][b], hist["L"][b])

====
